---------------------------- MODULE Spec2Model ----------------------------
(***************************************************************************)
(* A model of the BME280 I2C driver (src/C/BME280.c, src/C/bme280.h).      *)
(*                                                                         *)
(* The driver is single-threaded and synchronous: every API function is    *)
(* one atomic action.  The I2C transport (open, ioctl, write, read, close) *)
(* is the environment: the result of each transport call is an input of    *)
(* the action.  The compensation formulas are evaluated in IEEE-754        *)
(* binary32 arithmetic (round to nearest, ties to even), which is what the *)
(* C type float is on the platforms the driver targets.                    *)
(***************************************************************************)
EXTENDS Integers, Sequences, FiniteSets, TLC

(***************************************************************************)
(* Let(v, In) is In applied to the value of v, and Let2 the same for two   *)
(* values: v is evaluated once, as C evaluates an operand or the           *)
(* right-hand side of an assignment once.                                  *)
(***************************************************************************)
Let(v, In(_)) == CHOOSE r \in { In(x) : x \in {v} } : TRUE
Let2(v, w, In(_, _)) == CHOOSE r \in { In(x, y) : x \in {v}, y \in {w} } : TRUE

(***************************************************************************)
(* IEEE-754 binary32.  A float is a record [k, s, m, e]:                   *)
(*   k = "fin": the value (-1)^s * m * 2^e, with m = 0 (zero, e = 0),      *)
(*              2^23 <= m < 2^24 (normal, -149 <= e <= 104) or             *)
(*              0 < m < 2^23 (subnormal, e = -149);                        *)
(*   k = "inf": the infinity of sign s;   k = "nan": a NaN.                *)
(* All integer intermediates stay below 2^31.                              *)
(***************************************************************************)
F32Zero(s) == [k |-> "fin", s |-> s, m |-> 0, e |-> 0]
F32Inf(s)  == [k |-> "inf", s |-> s, m |-> 0, e |-> 0]
F32NaN     == [k |-> "nan", s |-> 0, m |-> 0, e |-> 0]

IsZero(a) == a.k = "fin" /\ a.m = 0

\* The number of bits of n: 0 for 0, and k for 2^(k-1) <= n < 2^k.
BitLen(n) == CHOOSE k \in 0 .. 31 : (k = 0 /\ n = 0) \/ (k > 0 /\ n \div 2^(k - 1) = 1)

\* n shifted right by k bits, the bits shifted out OR-ed into the lowest bit.
ShiftRightJam(n, k) ==
    IF k = 0 THEN n
    ELSE IF k >= 31 THEN (IF n = 0 THEN 0 ELSE 1)
    ELSE IF n % 2^k = 0 \/ (n \div 2^k) % 2 = 1 THEN n \div 2^k
    ELSE n \div 2^k + 1

\* A 27-bit significand s2 (24 bits and three below them) at exponent e2 of
\* its 24 bits, rounded to nearest, ties to even.
RoundBits(s, s2, e2) ==
    Let(IF s2 % 8 > 4 \/ (s2 % 8 = 4 /\ (s2 \div 8) % 2 = 1) THEN s2 \div 8 + 1 ELSE s2 \div 8,
        LAMBDA m1 :
            IF m1 = 0 THEN F32Zero(s)
            ELSE IF m1 = 16777216
                 THEN (IF e2 + 1 > 104 THEN F32Inf(s)
                       ELSE [k |-> "fin", s |-> s, m |-> 8388608, e |-> e2 + 1])
            ELSE IF e2 > 104 THEN F32Inf(s)
            ELSE [k |-> "fin", s |-> s, m |-> m1, e |-> e2])

\* The float nearest to (-1)^s * sig * 2^e (ties to even), where the lowest
\* bit of sig may stand for discarded lower bits; sig < 2^31.  The
\* significand is brought to 27 bits, and shifted further right when the
\* result is subnormal.
RoundPack(s, sig0, e0) ==
    Let2(sig0, e0, LAMBDA sig, e :
        IF sig = 0 THEN F32Zero(s)
        ELSE Let(BitLen(sig), LAMBDA n :
             Let2(IF n > 27 THEN ShiftRightJam(sig, n - 27) ELSE sig * 2^(27 - n),
                  IF e + n - 24 < -149 THEN -149 - (e + n - 24) ELSE 0,
                  LAMBDA s1, d : RoundBits(s, ShiftRightJam(s1, d), e + n - 24 + d))))

\* (float)i for an int32_t i with |i| < 2^31.
F32FromInt(i0) ==
    Let(i0, LAMBDA i : IF i < 0 THEN RoundPack(1, -i, 0) ELSE RoundPack(0, i, 0))

\* The mantissa of a nonzero finite float shifted to 24 bits, and the
\* exponent that goes with it.
NormMant(a) == a.m * 2^(24 - BitLen(a.m))
NormExp(a)  == a.e - (24 - BitLen(a.m))

F32Neg(a0) == Let(a0, LAMBDA a : IF a.k = "nan" THEN a ELSE [a EXCEPT !.s = 1 - a.s])

\* The 48-bit product of two 24-bit mantissas as 27 bits, from the partial
\* products of their 12-bit halves.
MulSig(ma, mb) ==
    Let2((ma \div 4096) * (mb % 4096) + (ma % 4096) * (mb \div 4096),
         (ma % 4096) * (mb % 4096),
         LAMBDA mid, ll :
    Let(ll + (mid % 4096) * 4096, LAMBDA t :
    Let2((ma \div 4096) * (mb \div 4096) + mid \div 4096 + t \div 16777216,
         t % 16777216,
         LAMBDA hi, lo :
             IF lo % 2097152 = 0 \/ (lo \div 2097152) % 2 = 1
             THEN hi * 8 + lo \div 2097152
             ELSE hi * 8 + lo \div 2097152 + 1)))

F32Mul(a0, b0) ==
    Let2(a0, b0, LAMBDA a, b :
        IF a.k = "nan" \/ b.k = "nan" THEN F32NaN
        ELSE IF a.k = "inf" \/ b.k = "inf"
             THEN (IF IsZero(a) \/ IsZero(b) THEN F32NaN ELSE F32Inf((a.s + b.s) % 2))
        ELSE IF a.m = 0 \/ b.m = 0 THEN F32Zero((a.s + b.s) % 2)
        ELSE RoundPack((a.s + b.s) % 2, MulSig(NormMant(a), NormMant(b)),
                       NormExp(a) + NormExp(b) + 21))

\* Long division seven bits at a time: <<q, r>> becomes the quotient and the
\* remainder with 7 * i more bits, for r < d < 2^24.
RECURSIVE DivLoop(_, _, _, _)
DivLoop(r0, d, q0, i) ==
    Let2(r0, q0, LAMBDA r, q :
        IF i = 0 THEN <<q, r>>
        ELSE DivLoop((r * 128) % d, d, q * 128 + (r * 128) \div d, i - 1))

\* The quotient of two 24-bit mantissas with 28 more bits, the lowest
\* standing for a remainder.
DivSig(ma, mb) ==
    Let(DivLoop(ma % mb, mb, ma \div mb, 4), LAMBDA qr :
        IF qr[2] = 0 \/ qr[1] % 2 = 1 THEN qr[1] ELSE qr[1] + 1)

F32Div(a0, b0) ==
    Let2(a0, b0, LAMBDA a, b :
        IF a.k = "nan" \/ b.k = "nan" THEN F32NaN
        ELSE IF a.k = "inf" THEN (IF b.k = "inf" THEN F32NaN ELSE F32Inf((a.s + b.s) % 2))
        ELSE IF b.k = "inf" THEN F32Zero((a.s + b.s) % 2)
        ELSE IF b.m = 0 THEN (IF a.m = 0 THEN F32NaN ELSE F32Inf((a.s + b.s) % 2))
        ELSE IF a.m = 0 THEN F32Zero((a.s + b.s) % 2)
        ELSE RoundPack((a.s + b.s) % 2, DivSig(NormMant(a), NormMant(b)),
                       NormExp(a) - NormExp(b) - 28))

\* x + y for finite nonzero x, y with x.e >= y.e: both significands with
\* three more bits, y's shifted to x's exponent.
AddAligned(x, y) ==
    Let2(x.m * 8, ShiftRightJam(y.m * 8, x.e - y.e), LAMBDA bx, by :
        IF x.s = y.s THEN RoundPack(x.s, bx + by, x.e - 3)
        ELSE IF bx > by THEN RoundPack(x.s, bx - by, x.e - 3)
        ELSE IF bx < by THEN RoundPack(y.s, by - bx, x.e - 3)
        ELSE F32Zero(0))

F32Add(a0, b0) ==
    Let2(a0, b0, LAMBDA a, b :
        IF a.k = "nan" \/ b.k = "nan" THEN F32NaN
        ELSE IF a.k = "inf"
             THEN (IF b.k = "inf" /\ b.s # a.s THEN F32NaN ELSE a)
        ELSE IF b.k = "inf" THEN b
        ELSE IF a.m = 0 /\ b.m = 0 THEN F32Zero(IF a.s = 1 /\ b.s = 1 THEN 1 ELSE 0)
        ELSE IF a.m = 0 THEN b
        ELSE IF b.m = 0 THEN a
        ELSE IF a.e >= b.e THEN AddAligned(a, b)
        ELSE AddAligned(b, a))

F32Sub(a, b) == F32Add(a, F32Neg(b))

\* The order of the magnitudes of floats that are not NaN, as a pair.
Magnitude(x) ==
    IF x.k = "inf" THEN <<200, 0>> ELSE IF x.m = 0 THEN <<-200, 0>> ELSE <<x.e, x.m>>

PairLess(p, q) == p[1] < q[1] \/ (p[1] = q[1] /\ p[2] < q[2])

\* a < b and a > b of C: false when either operand is a NaN.
F32Lt(a0, b0) ==
    Let2(a0, b0, LAMBDA a, b :
        IF a.k = "nan" \/ b.k = "nan" THEN FALSE
        ELSE IF IsZero(a) /\ IsZero(b) THEN FALSE
        ELSE IF a.s # b.s THEN a.s = 1
        ELSE IF a.s = 0 THEN PairLess(Magnitude(a), Magnitude(b))
        ELSE PairLess(Magnitude(b), Magnitude(a)))

F32Gt(a, b) == F32Lt(b, a)

\* A variant of F32ToInt32 that rounds toward minus infinity, as floorf does.
F32ToInt32_floor(a0) ==
    Let(a0, LAMBDA a :
        IF a.e >= 0 THEN (IF a.s = 1 THEN -(a.m * 2^a.e) ELSE a.m * 2^a.e)
        ELSE IF a.e <= -24 THEN (IF a.s = 1 /\ a.m # 0 THEN -1 ELSE 0)
        ELSE IF a.s = 0 THEN a.m \div 2^(-a.e)
        ELSE IF a.m % 2^(-a.e) = 0 THEN -(a.m \div 2^(-a.e))
        ELSE -(a.m \div 2^(-a.e)) - 1)

\* (int32_t)a: the value truncated toward zero, for finite |a| < 2^31.
F32ToInt32(a0) ==
    Let(a0, LAMBDA a :
        Let(IF a.e >= 0 THEN a.m * 2^a.e
            ELSE IF a.e <= -24 THEN 0
            ELSE a.m \div 2^(-a.e),
            LAMBDA v : IF a.s = 1 THEN -v ELSE v))

(***************************************************************************)
(* Integer conversions and bit operations of C on the driver's types.      *)
(***************************************************************************)
RECURSIVE BitOr(_, _)
BitOr(a0, b0) ==
    Let2(a0, b0, LAMBDA a, b :
        IF a = 0 THEN b
        ELSE IF b = 0 THEN a
        ELSE (IF a % 2 = 1 \/ b % 2 = 1 THEN 1 ELSE 0) + 2 * BitOr(a \div 2, b \div 2))

RECURSIVE BitAnd(_, _)
BitAnd(a0, b0) ==
    Let2(a0, b0, LAMBDA a, b :
        IF a = 0 \/ b = 0 THEN 0
        ELSE (IF a % 2 = 1 /\ b % 2 = 1 THEN 1 ELSE 0) + 2 * BitAnd(a \div 2, b \div 2))

Shl(a, k) == a * 2^k
Shr(a, k) == a \div 2^k

ToUint16(x) == x % 65536
ToInt16(x)  == LET u == x % 65536 IN IF u >= 32768 THEN u - 65536 ELSE u
ToInt8(x)   == LET u == x % 256 IN IF u >= 128 THEN u - 256 ELSE u

(***************************************************************************)
(* bme280_error_t and the register addresses of bme280.h.                  *)
(***************************************************************************)
BME280_OK           == 0
BME280_ERR_BUS_OPEN == 1
BME280_ERR_ADDR_SET == 2
BME280_ERR_WRITE    == 3
BME280_ERR_READ     == 4
BME280_ERR_NULL_PTR == 5
BME280_ERR_NOT_INIT == 6

BME280_REG_CALIB_TEMP_PRESS == 136
BME280_REG_CALIB_HUM1       == 161
BME280_REG_CALIB_HUM2       == 225
BME280_REG_CTRL_HUM         == 242
BME280_REG_CTRL_MEAS        == 244
BME280_REG_CONFIG           == 245
BME280_REG_DATA             == 247

(***************************************************************************)
(* The sensor.  Its calibration registers hold the encoding of a           *)
(* coefficient set: 0x88.. twelve little-endian 16-bit words, 0xA1 one     *)
(* byte, 0xE1.. seven bytes with H4 and H5 packed as 12-bit two's          *)
(* complement values sharing byte 4.                                       *)
(***************************************************************************)
Word16(v) == <<(v % 65536) % 256, (v % 65536) \div 256>>

EncodeTempPress(k) ==
    Word16(k.dig_T1) \o Word16(k.dig_T2) \o Word16(k.dig_T3) \o
    Word16(k.dig_P1) \o Word16(k.dig_P2) \o Word16(k.dig_P3) \o
    Word16(k.dig_P4) \o Word16(k.dig_P5) \o Word16(k.dig_P6) \o
    Word16(k.dig_P7) \o Word16(k.dig_P8) \o Word16(k.dig_P9)

EncodeHum1(k) == <<k.dig_H1 % 256>>

EncodeHum2(k) ==
    Word16(k.dig_H2) \o
    << k.dig_H3 % 256,
       (k.dig_H4 % 4096) \div 16,
       ((k.dig_H4 % 4096) % 16) + 16 * ((k.dig_H5 % 4096) % 16),
       (k.dig_H5 % 4096) \div 16,
       k.dig_H6 % 256 >>

\* The n bytes a read delivers after register reg was addressed; burst is the
\* current content of the eight data registers.
DeviceRead(image, burst, reg, n) ==
    IF reg = BME280_REG_CALIB_TEMP_PRESS THEN SubSeq(EncodeTempPress(image), 1, n)
    ELSE IF reg = BME280_REG_CALIB_HUM1 THEN SubSeq(EncodeHum1(image), 1, n)
    ELSE IF reg = BME280_REG_CALIB_HUM2 THEN SubSeq(EncodeHum2(image), 1, n)
    ELSE SubSeq(burst, 1, n)

(***************************************************************************)
(* The transport calls, as the entries of the log of one API call.         *)
(***************************************************************************)
TOpen(ret)            == [call |-> "open",  fd |-> -1, bytes |-> <<>>, n |-> 0, ret |-> ret]
TIoctl(fd, addr, ret) == [call |-> "ioctl", fd |-> fd, bytes |-> <<addr>>, n |-> 0, ret |-> ret]
TClose(fd)            == [call |-> "close", fd |-> fd, bytes |-> <<>>, n |-> 0, ret |-> 0]
TWrite(fd, bytes, ret) == [call |-> "write", fd |-> fd, bytes |-> bytes, n |-> Len(bytes), ret |-> ret]
TRead(fd, n, ret)     == [call |-> "read",  fd |-> fd, bytes |-> <<>>, n |-> n, ret |-> ret]

\* What an API call hands back: its return value, the context and the output
\* structure as it leaves them, the transport calls it made, the open handles.
Result(ret, c, d, log, open) ==
    [ret |-> ret, ctx |-> c, data |-> d, log |-> log, open |-> open]

(***************************************************************************)
(* bme280_error_string.  A const char * is NULL or points to a string.     *)
(***************************************************************************)
NullString == [null |-> TRUE, text |-> ""]

StringLiteral(text) == [null |-> FALSE, text |-> text]

\* A variant of bme280_error_string whose switch has no default case.
bme280_error_string_no_default(error) ==
    CASE error = BME280_OK           -> StringLiteral("Success")
      [] error = BME280_ERR_BUS_OPEN -> StringLiteral("Failed to open I2C bus")
      [] error = BME280_ERR_ADDR_SET -> StringLiteral("Failed to set I2C slave address")
      [] error = BME280_ERR_WRITE    -> StringLiteral("I2C write operation failed")
      [] error = BME280_ERR_READ     -> StringLiteral("I2C read operation failed")
      [] error = BME280_ERR_NULL_PTR -> StringLiteral("NULL pointer passed to function")
      [] error = BME280_ERR_NOT_INIT -> StringLiteral("Device not initialized")
      [] OTHER                       -> NullString

bme280_error_string(error) ==
    CASE error = BME280_OK           -> StringLiteral("Success")
      [] error = BME280_ERR_BUS_OPEN -> StringLiteral("Failed to open I2C bus")
      [] error = BME280_ERR_ADDR_SET -> StringLiteral("Failed to set I2C slave address")
      [] error = BME280_ERR_WRITE    -> StringLiteral("I2C write operation failed")
      [] error = BME280_ERR_READ     -> StringLiteral("I2C read operation failed")
      [] error = BME280_ERR_NULL_PTR -> StringLiteral("NULL pointer passed to function")
      [] error = BME280_ERR_NOT_INIT -> StringLiteral("Device not initialized")
      [] OTHER                       -> StringLiteral("Unknown error")

(***************************************************************************)
(* bme280_init                                                             *)
(***************************************************************************)
\* A variant of bme280_init that clears the whole context, the calibration
\* coefficients included, before it opens the bus.
bme280_init_clears_calib(ctxNull, busNull, c, d, address, openRet, ioctlRet, open) ==
    IF ctxNull \/ busNull THEN Result(BME280_ERR_NULL_PTR, c, d, <<>>, open)
    ELSE LET c1 == [fd |-> openRet, address |-> address, calib |-> [f \in DOMAIN c.calib |-> 0],
                    t_fine |-> 0]
             open1 == open \cup {openRet}
         IN  IF c1.fd < 0
             THEN Result(BME280_ERR_BUS_OPEN, c1, d, <<TOpen(openRet)>>, open)
             ELSE IF ioctlRet < 0
             THEN Result(BME280_ERR_ADDR_SET, [c1 EXCEPT !.fd = -1], d,
                         <<TOpen(openRet), TIoctl(c1.fd, address, ioctlRet), TClose(c1.fd)>>,
                         open1 \ {c1.fd})
             ELSE Result(BME280_OK, c1, d,
                         <<TOpen(openRet), TIoctl(c1.fd, address, ioctlRet)>>, open1)

\* A variant of bme280_init that returns on a failed bind without closing the
\* descriptor it opened.
bme280_init_leak(ctxNull, busNull, c, d, address, openRet, ioctlRet, open) ==
    IF ctxNull \/ busNull THEN Result(BME280_ERR_NULL_PTR, c, d, <<>>, open)
    ELSE LET c1 == [c EXCEPT !.fd = openRet, !.address = address, !.t_fine = 0]
             open1 == open \cup {openRet}
         IN  IF c1.fd < 0
             THEN Result(BME280_ERR_BUS_OPEN, c1, d, <<TOpen(openRet)>>, open)
             ELSE IF ioctlRet < 0
             THEN Result(BME280_ERR_ADDR_SET, [c1 EXCEPT !.fd = -1], d,
                         <<TOpen(openRet), TIoctl(c1.fd, address, ioctlRet)>>, open1)
             ELSE Result(BME280_OK, c1, d,
                         <<TOpen(openRet), TIoctl(c1.fd, address, ioctlRet)>>, open1)

\* A variant of bme280_init that closes the descriptor on a failed bind but
\* leaves its number in ctx->fd.
bme280_init_keeps_fd(ctxNull, busNull, c, d, address, openRet, ioctlRet, open) ==
    IF ctxNull \/ busNull THEN Result(BME280_ERR_NULL_PTR, c, d, <<>>, open)
    ELSE LET c1 == [c EXCEPT !.fd = openRet, !.address = address, !.t_fine = 0]
             open1 == open \cup {openRet}
         IN  IF c1.fd < 0
             THEN Result(BME280_ERR_BUS_OPEN, c1, d, <<TOpen(openRet)>>, open)
             ELSE IF ioctlRet < 0
             THEN Result(BME280_ERR_ADDR_SET, c1, d,
                         <<TOpen(openRet), TIoctl(c1.fd, address, ioctlRet), TClose(c1.fd)>>,
                         open1 \ {c1.fd})
             ELSE Result(BME280_OK, c1, d,
                         <<TOpen(openRet), TIoctl(c1.fd, address, ioctlRet)>>, open1)

bme280_init(ctxNull, busNull, c, d, address, openRet, ioctlRet, open) ==
    IF ctxNull \/ busNull THEN Result(BME280_ERR_NULL_PTR, c, d, <<>>, open)
    ELSE LET c1 == [c EXCEPT !.fd = openRet, !.address = address, !.t_fine = 0]
             open1 == open \cup {openRet}
         IN  IF c1.fd < 0
             THEN Result(BME280_ERR_BUS_OPEN, c1, d, <<TOpen(openRet)>>, open)
             ELSE IF ioctlRet < 0
             THEN Result(BME280_ERR_ADDR_SET, [c1 EXCEPT !.fd = -1], d,
                         <<TOpen(openRet), TIoctl(c1.fd, address, ioctlRet), TClose(c1.fd)>>,
                         open1 \ {c1.fd})
             ELSE Result(BME280_OK, c1, d,
                         <<TOpen(openRet), TIoctl(c1.fd, address, ioctlRet)>>, open1)

(***************************************************************************)
(* bme280_close (void: its Result carries BME280_OK)                       *)
(***************************************************************************)
\* A variant of bme280_close that closes the descriptor and leaves ctx->fd.
bme280_close_keeps_fd(ctxNull, c, d, open) ==
    IF ~ctxNull /\ c.fd >= 0
    THEN Result(BME280_OK, c, d, <<TClose(c.fd)>>, open \ {c.fd})
    ELSE Result(BME280_OK, c, d, <<>>, open)

bme280_close(ctxNull, c, d, open) ==
    IF ~ctxNull /\ c.fd >= 0
    THEN Result(BME280_OK, [c EXCEPT !.fd = -1], d, <<TClose(c.fd)>>, open \ {c.fd})
    ELSE Result(BME280_OK, c, d, <<>>, open)

(***************************************************************************)
(* bme280_read_calibration.  io[i] is the return value of the i-th         *)
(* transport call; a full read delivers the device's bytes.                *)
(***************************************************************************)
\* A variant of Le16 that takes the first byte for the high one.
Le16_big_endian(buf, i) == BitOr(buf[i + 2], Shl(buf[i + 1], 8))

Le16(buf, i) == BitOr(buf[i + 1], Shl(buf[i + 2], 8))

ParseTempPress(k, buf) ==
    [k EXCEPT !.dig_T1 = ToUint16(Le16(buf, 0)),
              !.dig_T2 = ToInt16(Le16(buf, 2)),
              !.dig_T3 = ToInt16(Le16(buf, 4)),
              !.dig_P1 = ToUint16(Le16(buf, 6)),
              !.dig_P2 = ToInt16(Le16(buf, 8)),
              !.dig_P3 = ToInt16(Le16(buf, 10)),
              !.dig_P4 = ToInt16(Le16(buf, 12)),
              !.dig_P5 = ToInt16(Le16(buf, 14)),
              !.dig_P6 = ToInt16(Le16(buf, 16)),
              !.dig_P7 = ToInt16(Le16(buf, 18)),
              !.dig_P8 = ToInt16(Le16(buf, 20)),
              !.dig_P9 = ToInt16(Le16(buf, 22))]

ParseHum1(k, buf) == [k EXCEPT !.dig_H1 = buf[1]]

ParseHum2(k, buf) ==
    [k EXCEPT !.dig_H2 = ToInt16(Le16(buf, 0)),
              !.dig_H3 = buf[3],
              !.dig_H4 = ToInt16(BitOr(Shl(buf[4], 4), BitAnd(buf[5], 15))),
              !.dig_H5 = ToInt16(BitOr(BitAnd(Shr(buf[5], 4), 15), Shl(buf[6], 4))),
              !.dig_H6 = ToInt8(buf[7])]

\* A variant of bme280_read_calibration that rejects coefficients it takes for
\* implausible: a T1 or a P1 of zero makes it return BME280_ERR_READ.
bme280_read_calibration_validates(ctxNull, c, d, io, image, open) ==
    IF ctxNull THEN Result(BME280_ERR_NULL_PTR, c, d, <<>>, open)
    ELSE IF c.fd < 0 THEN Result(BME280_ERR_NOT_INIT, c, d, <<>>, open)
    ELSE LET w1 == TWrite(c.fd, <<BME280_REG_CALIB_TEMP_PRESS>>, io[1])
             r1 == TRead(c.fd, 24, io[2])
             c1 == [c EXCEPT !.calib = ParseTempPress(c.calib,
                        DeviceRead(image, <<>>, BME280_REG_CALIB_TEMP_PRESS, 24))]
             w2 == TWrite(c.fd, <<BME280_REG_CALIB_HUM1>>, io[3])
             r2 == TRead(c.fd, 1, io[4])
             c2 == [c1 EXCEPT !.calib = ParseHum1(c1.calib,
                        DeviceRead(image, <<>>, BME280_REG_CALIB_HUM1, 1))]
             w3 == TWrite(c.fd, <<BME280_REG_CALIB_HUM2>>, io[5])
             r3 == TRead(c.fd, 7, io[6])
             c3 == [c2 EXCEPT !.calib = ParseHum2(c2.calib,
                        DeviceRead(image, <<>>, BME280_REG_CALIB_HUM2, 7))]
         IN  IF io[1] # 1 THEN Result(BME280_ERR_WRITE, c, d, <<w1>>, open)
             ELSE IF io[2] # 24 THEN Result(BME280_ERR_READ, c, d, <<w1, r1>>, open)
             ELSE IF c1.calib.dig_T1 = 0 \/ c1.calib.dig_P1 = 0
             THEN Result(BME280_ERR_READ, c1, d, <<w1, r1>>, open)
             ELSE IF io[3] # 1 THEN Result(BME280_ERR_WRITE, c1, d, <<w1, r1, w2>>, open)
             ELSE IF io[4] # 1 THEN Result(BME280_ERR_READ, c1, d, <<w1, r1, w2, r2>>, open)
             ELSE IF io[5] # 1 THEN Result(BME280_ERR_WRITE, c2, d, <<w1, r1, w2, r2, w3>>, open)
             ELSE IF io[6] # 7 THEN Result(BME280_ERR_READ, c2, d, <<w1, r1, w2, r2, w3, r3>>, open)
             ELSE Result(BME280_OK, c3, d, <<w1, r1, w2, r2, w3, r3>>, open)

\* A variant of bme280_read_calibration that reads the H1 byte without writing
\* its register address first.
bme280_read_calibration_no_hum1_address(ctxNull, c, d, io, image, open) ==
    IF ctxNull THEN Result(BME280_ERR_NULL_PTR, c, d, <<>>, open)
    ELSE IF c.fd < 0 THEN Result(BME280_ERR_NOT_INIT, c, d, <<>>, open)
    ELSE LET w1 == TWrite(c.fd, <<BME280_REG_CALIB_TEMP_PRESS>>, io[1])
             r1 == TRead(c.fd, 24, io[2])
             c1 == [c EXCEPT !.calib = ParseTempPress(c.calib,
                        DeviceRead(image, <<>>, BME280_REG_CALIB_TEMP_PRESS, 24))]
             r2 == TRead(c.fd, 1, io[4])
             c2 == [c1 EXCEPT !.calib = ParseHum1(c1.calib,
                        DeviceRead(image, <<>>, BME280_REG_CALIB_HUM1, 1))]
             w3 == TWrite(c.fd, <<BME280_REG_CALIB_HUM2>>, io[5])
             r3 == TRead(c.fd, 7, io[6])
             c3 == [c2 EXCEPT !.calib = ParseHum2(c2.calib,
                        DeviceRead(image, <<>>, BME280_REG_CALIB_HUM2, 7))]
         IN  IF io[1] # 1 THEN Result(BME280_ERR_WRITE, c, d, <<w1>>, open)
             ELSE IF io[2] # 24 THEN Result(BME280_ERR_READ, c, d, <<w1, r1>>, open)
             ELSE IF io[4] # 1 THEN Result(BME280_ERR_READ, c1, d, <<w1, r1, r2>>, open)
             ELSE IF io[5] # 1 THEN Result(BME280_ERR_WRITE, c2, d, <<w1, r1, r2, w3>>, open)
             ELSE IF io[6] # 7 THEN Result(BME280_ERR_READ, c2, d, <<w1, r1, r2, w3, r3>>, open)
             ELSE Result(BME280_OK, c3, d, <<w1, r1, r2, w3, r3>>, open)

bme280_read_calibration(ctxNull, c, d, io, image, open) ==
    IF ctxNull THEN Result(BME280_ERR_NULL_PTR, c, d, <<>>, open)
    ELSE IF c.fd < 0 THEN Result(BME280_ERR_NOT_INIT, c, d, <<>>, open)
    ELSE LET w1 == TWrite(c.fd, <<BME280_REG_CALIB_TEMP_PRESS>>, io[1])
             r1 == TRead(c.fd, 24, io[2])
             c1 == [c EXCEPT !.calib = ParseTempPress(c.calib,
                        DeviceRead(image, <<>>, BME280_REG_CALIB_TEMP_PRESS, 24))]
             w2 == TWrite(c.fd, <<BME280_REG_CALIB_HUM1>>, io[3])
             r2 == TRead(c.fd, 1, io[4])
             c2 == [c1 EXCEPT !.calib = ParseHum1(c1.calib,
                        DeviceRead(image, <<>>, BME280_REG_CALIB_HUM1, 1))]
             w3 == TWrite(c.fd, <<BME280_REG_CALIB_HUM2>>, io[5])
             r3 == TRead(c.fd, 7, io[6])
             c3 == [c2 EXCEPT !.calib = ParseHum2(c2.calib,
                        DeviceRead(image, <<>>, BME280_REG_CALIB_HUM2, 7))]
         IN  IF io[1] # 1 THEN Result(BME280_ERR_WRITE, c, d, <<w1>>, open)
             ELSE IF io[2] # 24 THEN Result(BME280_ERR_READ, c, d, <<w1, r1>>, open)
             ELSE IF io[3] # 1 THEN Result(BME280_ERR_WRITE, c1, d, <<w1, r1, w2>>, open)
             ELSE IF io[4] # 1 THEN Result(BME280_ERR_READ, c1, d, <<w1, r1, w2, r2>>, open)
             ELSE IF io[5] # 1 THEN Result(BME280_ERR_WRITE, c2, d, <<w1, r1, w2, r2, w3>>, open)
             ELSE IF io[6] # 7 THEN Result(BME280_ERR_READ, c2, d, <<w1, r1, w2, r2, w3, r3>>, open)
             ELSE Result(BME280_OK, c3, d, <<w1, r1, w2, r2, w3, r3>>, open)

(***************************************************************************)
(* bme280_configure                                                        *)
(***************************************************************************)
\* A variant of bme280_configure that writes the measurement control register
\* before the humidity control register.
bme280_configure_meas_first(ctxNull, c, d, io, open) ==
    IF ctxNull THEN Result(BME280_ERR_NULL_PTR, c, d, <<>>, open)
    ELSE IF c.fd < 0 THEN Result(BME280_ERR_NOT_INIT, c, d, <<>>, open)
    ELSE LET w1 == TWrite(c.fd, <<BME280_REG_CTRL_MEAS, 39>>, io[1])
             w2 == TWrite(c.fd, <<BME280_REG_CTRL_HUM, 1>>, io[2])
             w3 == TWrite(c.fd, <<BME280_REG_CONFIG, 160>>, io[3])
         IN  IF io[1] # 2 THEN Result(BME280_ERR_WRITE, c, d, <<w1>>, open)
             ELSE IF io[2] # 2 THEN Result(BME280_ERR_WRITE, c, d, <<w1, w2>>, open)
             ELSE IF io[3] # 2 THEN Result(BME280_ERR_WRITE, c, d, <<w1, w2, w3>>, open)
             ELSE Result(BME280_OK, c, d, <<w1, w2, w3>>, open)

\* A variant of bme280_configure that makes all three writes before it looks
\* at their results.
bme280_configure_continues(ctxNull, c, d, io, open) ==
    IF ctxNull THEN Result(BME280_ERR_NULL_PTR, c, d, <<>>, open)
    ELSE IF c.fd < 0 THEN Result(BME280_ERR_NOT_INIT, c, d, <<>>, open)
    ELSE LET w1 == TWrite(c.fd, <<BME280_REG_CTRL_HUM, 1>>, io[1])
             w2 == TWrite(c.fd, <<BME280_REG_CTRL_MEAS, 39>>, io[2])
             w3 == TWrite(c.fd, <<BME280_REG_CONFIG, 160>>, io[3])
         IN  IF io[1] # 2 \/ io[2] # 2 \/ io[3] # 2
             THEN Result(BME280_ERR_WRITE, c, d, <<w1, w2, w3>>, open)
             ELSE Result(BME280_OK, c, d, <<w1, w2, w3>>, open)

\* A variant of bme280_configure without the test of ctx->fd.
bme280_configure_unguarded(ctxNull, c, d, io, open) ==
    IF ctxNull THEN Result(BME280_ERR_NULL_PTR, c, d, <<>>, open)
    ELSE LET w1 == TWrite(c.fd, <<BME280_REG_CTRL_HUM, 1>>, io[1])
             w2 == TWrite(c.fd, <<BME280_REG_CTRL_MEAS, 39>>, io[2])
             w3 == TWrite(c.fd, <<BME280_REG_CONFIG, 160>>, io[3])
         IN  IF io[1] # 2 THEN Result(BME280_ERR_WRITE, c, d, <<w1>>, open)
             ELSE IF io[2] # 2 THEN Result(BME280_ERR_WRITE, c, d, <<w1, w2>>, open)
             ELSE IF io[3] # 2 THEN Result(BME280_ERR_WRITE, c, d, <<w1, w2, w3>>, open)
             ELSE Result(BME280_OK, c, d, <<w1, w2, w3>>, open)

bme280_configure(ctxNull, c, d, io, open) ==
    IF ctxNull THEN Result(BME280_ERR_NULL_PTR, c, d, <<>>, open)
    ELSE IF c.fd < 0 THEN Result(BME280_ERR_NOT_INIT, c, d, <<>>, open)
    ELSE LET w1 == TWrite(c.fd, <<BME280_REG_CTRL_HUM, 1>>, io[1])
             w2 == TWrite(c.fd, <<BME280_REG_CTRL_MEAS, 39>>, io[2])
             w3 == TWrite(c.fd, <<BME280_REG_CONFIG, 160>>, io[3])
         IN  IF io[1] # 2 THEN Result(BME280_ERR_WRITE, c, d, <<w1>>, open)
             ELSE IF io[2] # 2 THEN Result(BME280_ERR_WRITE, c, d, <<w1, w2>>, open)
             ELSE IF io[3] # 2 THEN Result(BME280_ERR_WRITE, c, d, <<w1, w2, w3>>, open)
             ELSE Result(BME280_OK, c, d, <<w1, w2, w3>>, open)

(***************************************************************************)
(* bme280_read_data: the raw sample and the three compensation formulas.   *)
(***************************************************************************)
F(i) == F32FromInt(i)

\* The literal 2147483648.0f = 2^31.
F2p31 == [k |-> "fin", s |-> 0, m |-> 8388608, e |-> 8]

\* A variant of AdcP that takes the low nibble of the third register, not the
\* high one.
AdcP_low_nibble(buf) == BitOr(BitOr(Shl(buf[1], 12), Shl(buf[2], 4)), BitAnd(buf[3], 15))

AdcP(buf) == BitOr(BitOr(Shl(buf[1], 12), Shl(buf[2], 4)), Shr(buf[3], 4))

\* A variant of AdcT that takes the three pressure registers.
AdcT_pressure_registers(buf) == BitOr(BitOr(Shl(buf[1], 12), Shl(buf[2], 4)), Shr(buf[3], 4))

AdcT(buf) == BitOr(BitOr(Shl(buf[4], 12), Shl(buf[5], 4)), Shr(buf[6], 4))
AdcH(buf) == BitOr(Shl(buf[7], 8), buf[8])

\* var1 + var2 of the temperature formula.
TempSum(k, adc_t0) ==
    Let(adc_t0, LAMBDA adc_t :
    Let2(F32Mul(F32Sub(F32Div(F(adc_t), F(16384)), F32Div(F(k.dig_T1), F(1024))),
                F(k.dig_T2)),
         F32Sub(F32Div(F(adc_t), F(131072)), F32Div(F(k.dig_T1), F(8192))),
         LAMBDA var1, x2 :
             F32Add(var1, F32Mul(F32Mul(x2, x2), F(k.dig_T3)))))

\* ctx->t_fine = (int32_t)(var1 + var2)
TFine(k, adc_t) == F32ToInt32(TempSum(k, adc_t))

\* data->temperature_c = (var1 + var2) / 5120.0f
TemperatureC(k, adc_t) == F32Div(TempSum(k, adc_t), F(5120))

\* The literal 1.8f.
F1p8 == [k |-> "fin", s |-> 0, m |-> 15099494, e |-> -23]

\* data->temperature_f = data->temperature_c * 1.8f + 32.0f
TemperatureF(temperature_c) == F32Add(F32Mul(temperature_c, F1p8), F(32))

\* A variant of PressureHpa without the last division: pascal, not hectopascal.
PressureHpa_pascal(k, adc_p, t_fine) ==
    Let(F32Sub(F32Div(F(t_fine), F(2)), F(64000)), LAMBDA v1a :
    Let(F32Div(F32Mul(F32Mul(v1a, v1a), F(k.dig_P6)), F(32768)), LAMBDA v2a :
    Let(F32Add(v2a, F32Mul(F32Mul(v1a, F(k.dig_P5)), F(2))), LAMBDA v2b :
    Let(F32Add(F32Div(v2b, F(4)), F32Mul(F(k.dig_P4), F(65536))), LAMBDA v2c :
    Let(F32Div(F32Add(F32Div(F32Mul(F32Mul(F(k.dig_P3), v1a), v1a), F(524288)),
                      F32Mul(F(k.dig_P2), v1a)),
               F(524288)), LAMBDA v1b :
    Let(F32Mul(F32Add(F(1), F32Div(v1b, F(32768))), F(k.dig_P1)), LAMBDA v1c :
    Let(F32Sub(F(1048576), F(adc_p)), LAMBDA p0 :
    Let(F32Div(F32Mul(F32Sub(p0, F32Div(v2c, F(4096))), F(6250)), v1c), LAMBDA p :
    Let2(F32Div(F32Mul(F32Mul(F(k.dig_P9), p), p), F2p31),
         F32Div(F32Mul(p, F(k.dig_P8)), F(32768)),
         LAMBDA v1d, v2d :
             F32Add(p, F32Div(F32Add(F32Add(v1d, v2d), F(k.dig_P7)), F(16)))
    )))))))))

\* The pressure formula: each Let is one assignment to var1, var2 or p.
PressureHpa(k, adc_p, t_fine) ==
    Let(F32Sub(F32Div(F(t_fine), F(2)), F(64000)), LAMBDA v1a :
    Let(F32Div(F32Mul(F32Mul(v1a, v1a), F(k.dig_P6)), F(32768)), LAMBDA v2a :
    Let(F32Add(v2a, F32Mul(F32Mul(v1a, F(k.dig_P5)), F(2))), LAMBDA v2b :
    Let(F32Add(F32Div(v2b, F(4)), F32Mul(F(k.dig_P4), F(65536))), LAMBDA v2c :
    Let(F32Div(F32Add(F32Div(F32Mul(F32Mul(F(k.dig_P3), v1a), v1a), F(524288)),
                      F32Mul(F(k.dig_P2), v1a)),
               F(524288)), LAMBDA v1b :
    Let(F32Mul(F32Add(F(1), F32Div(v1b, F(32768))), F(k.dig_P1)), LAMBDA v1c :
    Let(F32Sub(F(1048576), F(adc_p)), LAMBDA p0 :
    Let(F32Div(F32Mul(F32Sub(p0, F32Div(v2c, F(4096))), F(6250)), v1c), LAMBDA p :
    Let2(F32Div(F32Mul(F32Mul(F(k.dig_P9), p), p), F2p31),
         F32Div(F32Mul(p, F(k.dig_P8)), F(32768)),
         LAMBDA v1d, v2d :
             F32Div(F32Add(p, F32Div(F32Add(F32Add(v1d, v2d), F(k.dig_P7)), F(16))),
                    F(100))
    )))))))))

\* The divisor of the pressure formula: the value var1 has when p is divided
\* by it.
PressureDivisor(k, t_fine) ==
    Let(F32Sub(F32Div(F(t_fine), F(2)), F(64000)), LAMBDA v1a :
    Let(F32Div(F32Add(F32Div(F32Mul(F32Mul(F(k.dig_P3), v1a), v1a), F(524288)),
                      F32Mul(F(k.dig_P2), v1a)),
               F(524288)), LAMBDA v1b :
        F32Mul(F32Add(F(1), F32Div(v1b, F(32768))), F(k.dig_P1))))

\* The humidity formula before the clamp: h0 and h1 are the two values var_H
\* takes before the last assignment.
HumidityRaw(k, adc_h, t_fine) ==
    Let(F32Sub(F(t_fine), F(76800)), LAMBDA h0 :
    Let(F32Mul(F32Sub(F(adc_h),
                      F32Add(F32Mul(F(k.dig_H4), F(64)),
                             F32Mul(F32Div(F(k.dig_H5), F(16384)), h0))),
               F32Mul(F32Div(F(k.dig_H2), F(65536)),
                      F32Add(F(1),
                             F32Mul(F32Mul(F32Div(F(k.dig_H6), F(67108864)), h0),
                                    F32Add(F(1),
                                           F32Mul(F32Div(F(k.dig_H3), F(67108864)), h0)))))),
        LAMBDA h1 :
            F32Mul(h1, F32Sub(F(1), F32Div(F32Mul(F(k.dig_H1), h1), F(524288))))))

\* A variant of ClampHumidity that does not clamp.
ClampHumidity_none(h0) == h0

ClampHumidity(h0) ==
    Let(h0, LAMBDA h :
        IF F32Gt(h, F(100)) THEN F(100)
        ELSE IF F32Lt(h, F(0)) THEN F(0)
        ELSE h)

\* A variant of Compensate that derives temperature_f from t_fine, not from
\* temperature_c.
Compensate_f_from_t_fine(k0, buf0) ==
    Let2(k0, buf0, LAMBDA k, buf :
    Let2(TFine(k, AdcT(buf)), TemperatureC(k, AdcT(buf)), LAMBDA t_fine, temperature_c :
        [t_fine |-> t_fine,
         data |-> [temperature_c |-> temperature_c,
                   temperature_f |-> TemperatureF(F32Div(F(t_fine), F(5120))),
                   pressure_hpa  |-> PressureHpa(k, AdcP(buf), t_fine),
                   humidity_rh   |-> ClampHumidity(HumidityRaw(k, AdcH(buf), t_fine))]]))

\* What a full read of the data registers makes of ctx->t_fine and *data.
Compensate(k0, buf0) ==
    Let2(k0, buf0, LAMBDA k, buf :
    Let2(TFine(k, AdcT(buf)), TemperatureC(k, AdcT(buf)), LAMBDA t_fine, temperature_c :
        [t_fine |-> t_fine,
         data |-> [temperature_c |-> temperature_c,
                   temperature_f |-> TemperatureF(temperature_c),
                   pressure_hpa  |-> PressureHpa(k, AdcP(buf), t_fine),
                   humidity_rh   |-> ClampHumidity(HumidityRaw(k, AdcH(buf), t_fine))]]))

\* A variant of bme280_read_data that tests ctx->fd before it tests data.
bme280_read_data_fd_first(ctxNull, dataNull, c, d, io, image, burst, open) ==
    IF ctxNull THEN Result(BME280_ERR_NULL_PTR, c, d, <<>>, open)
    ELSE IF c.fd < 0 THEN Result(BME280_ERR_NOT_INIT, c, d, <<>>, open)
    ELSE IF dataNull THEN Result(BME280_ERR_NULL_PTR, c, d, <<>>, open)
    ELSE LET w1  == TWrite(c.fd, <<BME280_REG_DATA>>, io[1])
             r1  == TRead(c.fd, 8, io[2])
         IN  IF io[1] # 1 THEN Result(BME280_ERR_WRITE, c, d, <<w1>>, open)
             ELSE IF io[2] # 8 THEN Result(BME280_ERR_READ, c, d, <<w1, r1>>, open)
             ELSE Let(Compensate(c.calib, DeviceRead(image, burst, BME280_REG_DATA, 8)),
                      LAMBDA out :
                          Result(BME280_OK, [c EXCEPT !.t_fine = out.t_fine], out.data,
                                 <<w1, r1>>, open))

\* A variant of bme280_read_data that takes only a negative return of write
\* and read for a failure, and so accepts a short transfer.
bme280_read_data_short(ctxNull, dataNull, c, d, io, image, burst, open) ==
    IF ctxNull \/ dataNull THEN Result(BME280_ERR_NULL_PTR, c, d, <<>>, open)
    ELSE IF c.fd < 0 THEN Result(BME280_ERR_NOT_INIT, c, d, <<>>, open)
    ELSE LET w1  == TWrite(c.fd, <<BME280_REG_DATA>>, io[1])
             r1  == TRead(c.fd, 8, io[2])
         IN  IF io[1] < 0 THEN Result(BME280_ERR_WRITE, c, d, <<w1>>, open)
             ELSE IF io[2] < 0 THEN Result(BME280_ERR_READ, c, d, <<w1, r1>>, open)
             ELSE Let(Compensate(c.calib, DeviceRead(image, burst, BME280_REG_DATA, 8)),
                      LAMBDA out :
                          Result(BME280_OK, [c EXCEPT !.t_fine = out.t_fine], out.data,
                                 <<w1, r1>>, open))

\* A variant of bme280_read_data whose pressure and humidity formulas read
\* the t_fine the context held before the call.
bme280_read_data_stale_t_fine(ctxNull, dataNull, c, d, io, image, burst, open) ==
    IF ctxNull \/ dataNull THEN Result(BME280_ERR_NULL_PTR, c, d, <<>>, open)
    ELSE IF c.fd < 0 THEN Result(BME280_ERR_NOT_INIT, c, d, <<>>, open)
    ELSE LET w1  == TWrite(c.fd, <<BME280_REG_DATA>>, io[1])
             r1  == TRead(c.fd, 8, io[2])
         IN  IF io[1] # 1 THEN Result(BME280_ERR_WRITE, c, d, <<w1>>, open)
             ELSE IF io[2] # 8 THEN Result(BME280_ERR_READ, c, d, <<w1, r1>>, open)
             ELSE Let2(DeviceRead(image, burst, BME280_REG_DATA, 8), c.t_fine,
                       LAMBDA buf, stale :
                 Let(Compensate(c.calib, buf), LAMBDA out :
                     Result(BME280_OK, [c EXCEPT !.t_fine = out.t_fine],
                            [out.data EXCEPT
                                !.pressure_hpa = PressureHpa(c.calib, AdcP(buf), stale),
                                !.humidity_rh =
                                    ClampHumidity(HumidityRaw(c.calib, AdcH(buf), stale))],
                            <<w1, r1>>, open)))

\* A variant of bme280_read_data that clears the output structure and t_fine
\* when a transfer fails.
bme280_read_data_clears_on_error(ctxNull, dataNull, c, d, io, image, burst, open) ==
    IF ctxNull \/ dataNull THEN Result(BME280_ERR_NULL_PTR, c, d, <<>>, open)
    ELSE IF c.fd < 0 THEN Result(BME280_ERR_NOT_INIT, c, d, <<>>, open)
    ELSE LET w1  == TWrite(c.fd, <<BME280_REG_DATA>>, io[1])
             r1  == TRead(c.fd, 8, io[2])
             c0  == [c EXCEPT !.t_fine = 0]
             d0  == [f \in DOMAIN d |-> F32Zero(0)]
         IN  IF io[1] # 1 THEN Result(BME280_ERR_WRITE, c0, d0, <<w1>>, open)
             ELSE IF io[2] # 8 THEN Result(BME280_ERR_READ, c0, d0, <<w1, r1>>, open)
             ELSE Let(Compensate(c.calib, DeviceRead(image, burst, BME280_REG_DATA, 8)),
                      LAMBDA out :
                          Result(BME280_OK, [c EXCEPT !.t_fine = out.t_fine], out.data,
                                 <<w1, r1>>, open))

bme280_read_data(ctxNull, dataNull, c, d, io, image, burst, open) ==
    IF ctxNull \/ dataNull THEN Result(BME280_ERR_NULL_PTR, c, d, <<>>, open)
    ELSE IF c.fd < 0 THEN Result(BME280_ERR_NOT_INIT, c, d, <<>>, open)
    ELSE LET w1  == TWrite(c.fd, <<BME280_REG_DATA>>, io[1])
             r1  == TRead(c.fd, 8, io[2])
         IN  IF io[1] # 1 THEN Result(BME280_ERR_WRITE, c, d, <<w1>>, open)
             ELSE IF io[2] # 8 THEN Result(BME280_ERR_READ, c, d, <<w1, r1>>, open)
             ELSE Let(Compensate(c.calib, DeviceRead(image, burst, BME280_REG_DATA, 8)),
                      LAMBDA out :
                          Result(BME280_OK, [c EXCEPT !.t_fine = out.t_fine], out.data,
                                 <<w1, r1>>, open))

(***************************************************************************)
(* The reference implementation of the test suite and the ranges and       *)
(* tolerances of its comparison with the driver.                           *)
(***************************************************************************)
reference_compensate(calib, adc_t, adc_p, adc_h) ==
    Let2(F32Mul(F32Sub(F32Div(F(adc_t), F(16384)), F32Div(F(calib.dig_T1), F(1024))),
                F(calib.dig_T2)),
         F32Sub(F32Div(F(adc_t), F(131072)), F32Div(F(calib.dig_T1), F(8192))),
         LAMBDA tv1, tx :
    Let(F32Add(tv1, F32Mul(F32Mul(tx, tx), F(calib.dig_T3))), LAMBDA tsum :
    Let(F32ToInt32(tsum), LAMBDA t_fine :
    Let(F32Sub(F32Div(F(t_fine), F(2)), F(64000)), LAMBDA pa :
    Let(F32Div(F32Mul(F32Mul(pa, pa), F(calib.dig_P6)), F(32768)), LAMBDA pb :
    Let(F32Add(pb, F32Mul(F32Mul(pa, F(calib.dig_P5)), F(2))), LAMBDA pc :
    Let(F32Add(F32Div(pc, F(4)), F32Mul(F(calib.dig_P4), F(65536))), LAMBDA pd :
    Let(F32Div(F32Add(F32Div(F32Mul(F32Mul(F(calib.dig_P3), pa), pa), F(524288)),
                      F32Mul(F(calib.dig_P2), pa)),
               F(524288)), LAMBDA pe :
    Let(F32Mul(F32Add(F(1), F32Div(pe, F(32768))), F(calib.dig_P1)), LAMBDA pf :
    Let(F32Div(F32Mul(F32Sub(F32Sub(F(1048576), F(adc_p)), F32Div(pd, F(4096))),
                      F(6250)),
               pf), LAMBDA p :
    Let2(F32Div(F32Mul(F32Mul(F(calib.dig_P9), p), p), F2p31),
         F32Div(F32Mul(p, F(calib.dig_P8)), F(32768)),
         LAMBDA pg, ph :
    Let(F32Sub(F(t_fine), F(76800)), LAMBDA ha :
    Let(F32Mul(F32Sub(F(adc_h),
                      F32Add(F32Mul(F(calib.dig_H4), F(64)),
                             F32Mul(F32Div(F(calib.dig_H5), F(16384)), ha))),
               F32Mul(F32Div(F(calib.dig_H2), F(65536)),
                      F32Add(F(1),
                             F32Mul(F32Mul(F32Div(F(calib.dig_H6), F(67108864)), ha),
                                    F32Add(F(1),
                                           F32Mul(F32Div(F(calib.dig_H3), F(67108864)),
                                                  ha)))))),
        LAMBDA hb :
    Let(F32Mul(hb, F32Sub(F(1), F32Div(F32Mul(F(calib.dig_H1), hb), F(524288)))),
        LAMBDA hc :
            [temperature_c |-> F32Div(tsum, F(5120)),
             pressure_hpa  |-> F32Div(F32Add(p, F32Div(F32Add(F32Add(pg, ph),
                                                              F(calib.dig_P7)),
                                                       F(16))),
                                      F(100)),
             humidity_rh   |-> IF F32Gt(hc, F(100)) THEN F(100)
                               ELSE IF F32Lt(hc, F(0)) THEN F(0)
                               ELSE hc,
             t_fine        |-> t_fine]
    ))))))))))))))

\* fabsf
F32Abs(a) == IF a.k = "nan" THEN a ELSE [a EXCEPT !.s = 0]

\* The literals 0.01f and 0.1f.
TEMP_TOLERANCE  == [k |-> "fin", s |-> 0, m |-> 10737418, e |-> -30]
PRESS_TOLERANCE == [k |-> "fin", s |-> 0, m |-> 13421773, e |-> -27]
HUM_TOLERANCE   == [k |-> "fin", s |-> 0, m |-> 13421773, e |-> -27]

\* The ranges the test draws its coefficients from.
RealisticCalib(k) ==
    /\ k.dig_T1 \in 25000 .. 35000
    /\ k.dig_T2 \in 24000 .. 28000
    /\ k.dig_T3 \in -1500 .. 500
    /\ k.dig_P1 \in 30000 .. 40000
    /\ k.dig_P2 \in -11000 .. -9000
    /\ k.dig_P3 \in 2000 .. 4000
    /\ k.dig_P4 \in 4000 .. 8000
    /\ k.dig_P5 \in 100 .. 200
    /\ k.dig_P6 \in -10 .. 10
    /\ k.dig_P7 \in 9000 .. 10000
    /\ k.dig_P8 \in -11000 .. -9000
    /\ k.dig_P9 \in 4000 .. 5000
    /\ k.dig_H1 \in 70 .. 80
    /\ k.dig_H2 \in 350 .. 380
    /\ k.dig_H3 \in 0 .. 5
    /\ k.dig_H4 \in 300 .. 350
    /\ k.dig_H5 \in 40 .. 60
    /\ k.dig_H6 \in 25 .. 35

(***************************************************************************)
(* The inputs the model draws from.                                        *)
(***************************************************************************)
MaxHandles == 2

\* The descriptors the process can hold; open returns the lowest free one.
Handles == 0 .. (MaxHandles - 1)

BME280_DEFAULT_ADDRESS == 118

Calib(t1, t2, t3, p1, p2, p3, p4, p5, p6, p7, p8, p9, h1, h2, h3, h4, h5, h6) ==
    [dig_T1 |-> t1, dig_T2 |-> t2, dig_T3 |-> t3,
     dig_P1 |-> p1, dig_P2 |-> p2, dig_P3 |-> p3, dig_P4 |-> p4, dig_P5 |-> p5,
     dig_P6 |-> p6, dig_P7 |-> p7, dig_P8 |-> p8, dig_P9 |-> p9,
     dig_H1 |-> h1, dig_H2 |-> h2, dig_H3 |-> h3, dig_H4 |-> h4, dig_H5 |-> h5,
     dig_H6 |-> h6]

ZeroCalib == Calib(0, 0, 0, 0, 0, 0, 0, 0, 0, 0, 0, 0, 0, 0, 0, 0, 0, 0)

\* Coefficient sets a sensor may hold: a typical one, the two corners of the
\* typical ranges, the extremes of every field's type, and a set with small
\* negative values.
ImageTypical == Calib(27504, 26435, -1000, 36477, -10685, 3024, 2855, 140, -7,
                      15500, -14600, 6000, 75, 367, 0, 315, 50, 30)
ImageLow     == Calib(25000, 24000, -1500, 30000, -11000, 2000, 4000, 100, -10,
                      9000, -11000, 4000, 70, 350, 0, 300, 40, 25)
ImageHigh    == Calib(35000, 28000, 500, 40000, -9000, 4000, 8000, 200, 10,
                      10000, -9000, 5000, 80, 380, 5, 350, 60, 35)
ImageMin     == Calib(0, -32768, -32768, 0, -32768, -32768, -32768, -32768, -32768,
                      -32768, -32768, -32768, 0, -32768, 0, -2048, -2048, -128)
ImageMax     == Calib(65535, 32767, 32767, 65535, 32767, 32767, 32767, 32767, 32767,
                      32767, 32767, 32767, 255, 32767, 255, 2047, 2047, 127)
ImageNeg     == Calib(1, -1, -2, 256, -256, 255, -255, 1, -1,
                      2, -2, 128, 1, -1, 128, -1, -16, -1)

ImageMid     == Calib(30000, 26000, -500, 35000, -10000, 3000, 6000, 150, 0,
                      9500, -10000, 4500, 75, 365, 2, 325, 50, 30)

Images == {ImageTypical, ImageLow, ImageMid, ImageHigh, ImageMin, ImageMax, ImageNeg}

\* A raw sample of the sensor: the 20-bit pressure and temperature and the
\* 16-bit humidity conversion results; nib is what the two unused low nibbles
\* of the data registers hold.
Sample(adc_p, adc_t, adc_h, nib) ==
    [adc_p |-> adc_p, adc_t |-> adc_t, adc_h |-> adc_h, nib |-> nib]

\* The eight data registers for the raw sample s.
Burst(s) ==
    << s.adc_p \div 4096, (s.adc_p \div 16) % 256, (s.adc_p % 16) * 16 + s.nib,
       s.adc_t \div 4096, (s.adc_t \div 16) % 256, (s.adc_t % 16) * 16 + s.nib,
       s.adc_h \div 256, s.adc_h % 256 >>

SampleTypical == Sample(415148, 519888, 32768, 0)

Samples == { SampleTypical,
             Sample(300000, 400000, 20000, 0),
             Sample(500000, 600000, 40000, 15),
             Sample(450000, 500000, 25000, 5),
             Sample(300000, 519888, 20000, 9),
             Sample(0, 0, 0, 0),
             Sample(1048575, 1048575, 65535, 15) }

NoSample == Sample(0, 0, 0, 0)

\* The return values of a write or read of n bytes: failure, nothing, one
\* byte short, all of it.
IOResults(n) == {-1, 0, n - 1, n}

\* The transport results of an API call that makes the calls of sizes ns: all
\* calls but some call j transfer everything and call j returns r.  (The
\* results after a first failure are never asked for.)
Scripts(ns) ==
    UNION { { [i \in 1 .. Len(ns) |-> IF i = j THEN r ELSE ns[i]] : r \in IOResults(ns[j]) }
            : j \in 1 .. Len(ns) }

\* Every transport call transfers everything.
FullScript(ns) == {ns}

\* open(2): -1, or the lowest descriptor not in use.
OpenResults(open) ==
    {-1} \cup { h \in Handles \ open : \A g \in Handles \ open : h <= g }

\* Which of the two pointer arguments of a call are NULL.  Only init and
\* read_data take a second pointer.
NullArgs2 == {<<FALSE, FALSE>>, <<TRUE, FALSE>>, <<FALSE, TRUE>>, <<TRUE, TRUE>>}
NullArgs1 == {<<FALSE, FALSE>>, <<TRUE, FALSE>>}
NoNull    == {<<FALSE, FALSE>>}

F32Zeros == [temperature_c |-> F32Zero(0), temperature_f |-> F32Zero(0),
             pressure_hpa |-> F32Zero(0), humidity_rh |-> F32Zero(0)]

(***************************************************************************)
(* The state: the caller's context and output structure, the descriptors   *)
(* open in the process, the sensor's coefficient image, the last API call  *)
(* with the transport calls it made, and how the context came to the       *)
(* session state it is in; the last call of bme280_error_string; and, for  *)
(* callers that share one sensor, the sensor's register pointer and the     *)
(* callers' sessions.                                                      *)
(***************************************************************************)
VARIABLES ctx, data, openFds, image, lastCall, trace, phase, lastString, bus

vars == <<ctx, data, openFds, image, lastCall, trace, phase, lastString, bus>>

\* The record of a call: what was called with which arguments NULL, the
\* descriptor the context held and the phase it was in before, what came back,
\* and, of a successful read_data, the raw sample it read from the data
\* registers and the t_fine the context held before.
Call(op, nulls, c0, phase0, sample, r) ==
    [op |-> op, ret |-> r.ret, ctxNull |-> nulls[1], argNull |-> nulls[2], fd0 |-> c0.fd,
     phase0 |-> phase0,
     sample |-> IF op = "read_data" /\ r.ret = BME280_OK THEN sample ELSE NoSample,
     t_fine0 |-> IF op = "read_data" /\ r.ret = BME280_OK THEN c0.t_fine ELSE 0]

\* The phase of the context after a call: "preset" (the caller set fd to -1),
\* "open" (init succeeded), "init_failed", "closed".  A call that is given no
\* context, or that returns before it touches the context, leaves the phase.
PhaseAfter(op, nulls, ret, phase0) ==
    IF nulls[1] \/ ret = BME280_ERR_NULL_PTR THEN phase0
    ELSE IF op = "init" THEN (IF ret = BME280_OK THEN "open" ELSE "init_failed")
    ELSE IF op = "close" THEN "closed"
    ELSE phase0

Commit(op, nulls, sample, result) ==
    \E r \in {result} :
        /\ ctx' = r.ctx
        /\ data' = r.data
        /\ openFds' = r.open
        /\ trace' = r.log
        /\ lastCall' = Call(op, nulls, ctx, phase, sample, r)
        /\ phase' = PhaseAfter(op, nulls, r.ret, phase)
        /\ UNCHANGED <<image, lastString, bus>>

\* No callers that share a sensor.
NoBus == [pointer |-> 0, locking |-> FALSE, owner |-> 0, calls |-> 0, callers |-> <<>>]

\* No call of bme280_error_string yet.
NoString == [called |-> FALSE, error |-> BME280_OK, str |-> NullString]

\* A context whose fd the caller has preset to -1, before any call.
FreshCtx == [fd |-> -1, address |-> 0, calib |-> ZeroCalib, t_fine |-> 0]

NoCall == [op |-> "none", ret |-> BME280_OK, ctxNull |-> FALSE, argNull |-> FALSE,
           fd0 |-> -1, phase0 |-> "preset", sample |-> NoSample, t_fine0 |-> 0]

StepInit(nullArgs) ==
    \E nulls \in nullArgs, openRet \in OpenResults(openFds), ioctlRet \in {0, -1} :
        Commit("init", nulls, NoSample,
               bme280_init(nulls[1], nulls[2], ctx, data, BME280_DEFAULT_ADDRESS,
                           openRet, ioctlRet, openFds))

StepClose(nullArgs) ==
    \E nulls \in nullArgs :
        Commit("close", nulls, NoSample, bme280_close(nulls[1], ctx, data, openFds))

StepReadCalibration(nullArgs, scripts) ==
    \E nulls \in nullArgs, io \in scripts :
        Commit("read_calibration", nulls, NoSample,
               bme280_read_calibration(nulls[1], ctx, data, io, image, openFds))

StepConfigure(nullArgs, scripts) ==
    \E nulls \in nullArgs, io \in scripts :
        Commit("configure", nulls, NoSample,
               bme280_configure(nulls[1], ctx, data, io, openFds))

StepReadData(nullArgs, scripts, samples) ==
    \E nulls \in nullArgs, io \in scripts, sample \in samples :
        Commit("read_data", nulls, sample,
               bme280_read_data(nulls[1], nulls[2], ctx, data, io, image, Burst(sample),
                                openFds))

(***************************************************************************)
(* Spec: any sequence of API calls on one context, with NULL arguments and *)
(* a transport that may fail or transfer short at every call.              *)
(***************************************************************************)
Init ==
    /\ ctx = FreshCtx
    /\ data = F32Zeros
    /\ openFds = {}
    /\ image \in {ImageTypical, ImageNeg}
    /\ lastCall = NoCall
    /\ trace = <<>>
    /\ phase = "preset"
    /\ lastString = NoString
    /\ bus = NoBus

CallInit == StepInit(NullArgs2)

CallClose == StepClose(NullArgs1)

CallReadCalibration == StepReadCalibration(NullArgs1, Scripts(<<1, 24, 1, 1, 1, 7>>))

CallConfigure == StepConfigure(NullArgs1, Scripts(<<2, 2, 2>>))

CallReadData == StepReadData(NullArgs2, Scripts(<<1, 8>>), {SampleTypical})

Next ==
    \/ CallInit
    \/ CallClose
    \/ CallReadCalibration
    \/ CallConfigure
    \/ CallReadData

Spec == Init /\ [][Next]_vars

(***************************************************************************)
(* SpecSensor: a session that bme280_init has opened, on a transport that  *)
(* transfers everything, reading the calibration of each sensor image and  *)
(* compensating each raw sample.                                           *)
(***************************************************************************)
InitSensor ==
    LET r == bme280_init(FALSE, FALSE, FreshCtx, F32Zeros, BME280_DEFAULT_ADDRESS, 0, 0, {})
    IN  /\ ctx = r.ctx
        /\ data = r.data
        /\ openFds = r.open
        /\ image \in Images
        /\ lastCall = Call("init", <<FALSE, FALSE>>, FreshCtx, "preset", NoSample, r)
        /\ trace = r.log
        /\ phase = PhaseAfter("init", <<FALSE, FALSE>>, r.ret, "preset")
        /\ lastString = NoString
        /\ bus = NoBus

SensorReadCalibration == StepReadCalibration(NoNull, FullScript(<<1, 24, 1, 1, 1, 7>>))

SensorReadData == StepReadData(NoNull, FullScript(<<1, 8>>), Samples)

NextSensor ==
    \/ SensorReadCalibration
    \/ SensorReadData

SpecSensor == InitSensor /\ [][NextSensor]_vars

(***************************************************************************)
(* SpecStrings: a caller that asks for the string of any value of type     *)
(* bme280_error_t, the seven codes and the values outside them (the test   *)
(* suite asks for 999).                                                    *)
(***************************************************************************)
MaxCode == 60

UNKNOWN_CODE == 999

ErrorValues == (-MaxCode .. MaxCode) \cup {UNKNOWN_CODE}

InitStrings ==
    /\ ctx = FreshCtx
    /\ data = F32Zeros
    /\ openFds = {}
    /\ image = ImageTypical
    /\ lastCall = NoCall
    /\ trace = <<>>
    /\ phase = "preset"
    /\ lastString = NoString
    /\ bus = NoBus

CallErrorString ==
    \E error \in ErrorValues :
        /\ lastString' = [called |-> TRUE, error |-> error,
                          str |-> bme280_error_string(error)]
        /\ UNCHANGED <<ctx, data, openFds, image, lastCall, trace, phase, bus>>

NextStrings == CallErrorString

SpecStrings == InitStrings /\ [][NextStrings]_vars

(***************************************************************************)
(* SpecMain: the example program.  main calls init, read_calibration,      *)
(* configure and read_data in this order on one context, goes on only      *)
(* after BME280_OK, closes the context after a failure of any call but     *)
(* init, and closes it at the end.  The transport may fail or transfer      *)
(* short at every call.  Where main is follows from the last call.         *)
(***************************************************************************)
InitMain ==
    /\ ctx = FreshCtx
    /\ data = F32Zeros
    /\ openFds = {}
    /\ image \in Images
    /\ lastCall = NoCall
    /\ trace = <<>>
    /\ phase = "preset"
    /\ lastString = NoString
    /\ bus = NoBus

Returned(op) == lastCall.op = op /\ lastCall.ret = BME280_OK

Failed(op) == lastCall.op = op /\ lastCall.ret # BME280_OK

MainInit == lastCall.op = "none" /\ StepInit(NoNull)

MainReadCalibration ==
    Returned("init") /\ StepReadCalibration(NoNull, Scripts(<<1, 24, 1, 1, 1, 7>>))

MainConfigure ==
    Returned("read_calibration") /\ StepConfigure(NoNull, Scripts(<<2, 2, 2>>))

MainReadData ==
    Returned("configure") /\ StepReadData(NoNull, Scripts(<<1, 8>>), Samples)

MainCloseAfterFailure ==
    /\ Failed("read_calibration") \/ Failed("configure") \/ Failed("read_data")
    /\ StepClose(NoNull)

MainClose == Returned("read_data") /\ StepClose(NoNull)

NextMain ==
    \/ MainInit
    \/ MainReadCalibration
    \/ MainConfigure
    \/ MainReadData
    \/ MainCloseAfterFailure
    \/ MainClose

SpecMain == InitMain /\ [][NextMain]_vars

(***************************************************************************)
(* SpecBus: two callers, each with an open session of its own, on one      *)
(* sensor.  The driver makes the transport calls of an API function one    *)
(* after the other and holds no lock, so the calls of the two callers      *)
(* interleave unless the callers serialise whole API calls with a mutex    *)
(* of their own (bus.locking).  The sensor has one register pointer: a     *)
(* one-byte write sets it, a read of n bytes delivers the n registers from *)
(* it on and advances it by n.  Every transfer is complete.  The callers   *)
(* make at most MaxOps API calls between them.                             *)
(***************************************************************************)
MaxOps == 2

Callers == {1, 2}

\* The byte the sensor holds at register address a.  Registers outside the
\* four blocks the driver reads are read as 0.
RegisterByte(k, burst, a) ==
    IF a \in BME280_REG_CALIB_TEMP_PRESS .. (BME280_REG_CALIB_TEMP_PRESS + 23)
    THEN EncodeTempPress(k)[a - BME280_REG_CALIB_TEMP_PRESS + 1]
    ELSE IF a = BME280_REG_CALIB_HUM1 THEN EncodeHum1(k)[1]
    ELSE IF a \in BME280_REG_CALIB_HUM2 .. (BME280_REG_CALIB_HUM2 + 6)
    THEN EncodeHum2(k)[a - BME280_REG_CALIB_HUM2 + 1]
    ELSE IF a \in BME280_REG_DATA .. (BME280_REG_DATA + 7)
    THEN burst[a - BME280_REG_DATA + 1]
    ELSE 0

\* The n bytes a read delivers when the register pointer is at pointer.
DeviceReadAt(k, burst, pointer, n) ==
    [i \in 1 .. n |-> RegisterByte(k, burst, (pointer + i - 1) % 256)]

\* The transport calls of bme280_read_calibration and of bme280_read_data, in
\* the order of the code: write(fd, &reg, 1) and read(fd, buf, n).
TransportWrite(reg) == [call |-> "write", reg |-> reg, n |-> 1]
TransportRead(n) == [call |-> "read", reg |-> 0, n |-> n]

\* A variant of ReadCalibrationProgram that reads the H1 byte without writing
\* its register address first.
ReadCalibrationProgram_no_hum1_address ==
    << TransportWrite(BME280_REG_CALIB_TEMP_PRESS), TransportRead(24),
       TransportRead(1),
       TransportWrite(BME280_REG_CALIB_HUM2), TransportRead(7) >>

ReadCalibrationProgram ==
    << TransportWrite(BME280_REG_CALIB_TEMP_PRESS), TransportRead(24),
       TransportWrite(BME280_REG_CALIB_HUM1), TransportRead(1),
       TransportWrite(BME280_REG_CALIB_HUM2), TransportRead(7) >>

ReadDataProgram == << TransportWrite(BME280_REG_DATA), TransportRead(8) >>

Program(op) == IF op = "read_calibration" THEN ReadCalibrationProgram ELSE ReadDataProgram

\* What a caller's session makes of the bytes of a read of Len(bytes) bytes:
\* the parse of a calibration block, or the compensation of the raw sample.
Decode(k, bytes) ==
    IF Len(bytes) = 24 THEN [k EXCEPT !.calib = ParseTempPress(k.calib, bytes)]
    ELSE IF Len(bytes) = 1 THEN [k EXCEPT !.calib = ParseHum1(k.calib, bytes)]
    ELSE IF Len(bytes) = 7 THEN [k EXCEPT !.calib = ParseHum2(k.calib, bytes)]
    ELSE Let(Compensate(k.calib, bytes), LAMBDA out :
             [k EXCEPT !.t_fine = out.t_fine, !.data = out.data])

\* A caller between API calls, its session open and nothing read yet.  reg is
\* the local variable reg; asked and from record, of the caller's last read,
\* the register it had addressed and the register the bytes came from (-1:
\* no read yet); last is the API call it completed last.  bus.calls counts
\* the API calls the callers have entered.
IdleCaller ==
    [op |-> "idle", pc |-> 0, last |-> "none", reg |-> 0,
     asked |-> -1, from |-> -1, calib |-> ZeroCalib, t_fine |-> 0, data |-> F32Zeros]

\* The callers' mutex: a caller may enter an API call when the callers do not
\* serialise or nobody is inside one; it holds the mutex until the call ends.
MayEnter(b) == ~b.locking \/ b.owner = 0
OwnerInside(b, c) == IF b.locking THEN c ELSE 0

InitBus ==
    /\ ctx = FreshCtx
    /\ data = F32Zeros
    /\ openFds = {}
    /\ image = ImageTypical
    /\ lastCall = NoCall
    /\ trace = <<>>
    /\ phase = "preset"
    /\ lastString = NoString
    /\ \E locking \in BOOLEAN :
           bus = [pointer |-> 0, locking |-> locking, owner |-> 0, calls |-> 0,
                  callers |-> [c \in Callers |-> IdleCaller]]

\* Caller c enters bme280_read_calibration or bme280_read_data.
BusEnter(c) ==
    /\ bus.callers[c].op = "idle"
    /\ bus.calls < MaxOps
    /\ MayEnter(bus)
    /\ \E op \in {"read_calibration", "read_data"} :
           bus' = [bus EXCEPT !.owner = OwnerInside(bus, c),
                              !.calls = bus.calls + 1,
                              !.callers[c].op = op,
                              !.callers[c].pc = 1]
    /\ UNCHANGED <<ctx, data, openFds, image, lastCall, trace, phase, lastString>>

\* Caller c writes the register address: the next transport call of its API
\* call.
BusWrite(c) ==
    /\ bus.callers[c].op # "idle"
    /\ \E k \in {bus.callers[c]} : \E st \in {Program(k.op)[k.pc]} :
           /\ st.call = "write"
           /\ bus' = [bus EXCEPT !.pointer = st.reg,
                                 !.callers[c].reg = st.reg,
                                 !.callers[c].pc = k.pc + 1]
    /\ UNCHANGED <<ctx, data, openFds, image, lastCall, trace, phase, lastString>>

\* Caller c reads: the sensor delivers the registers from its pointer on, and
\* the caller parses or compensates them.  The API call returns after its
\* last read.
BusRead(c) ==
    /\ bus.callers[c].op # "idle"
    /\ \E k \in {bus.callers[c]} : \E st \in {Program(k.op)[k.pc]} :
           /\ st.call = "read"
           /\ \E k1 \in {Decode(k, DeviceReadAt(image, Burst(SampleTypical), bus.pointer, st.n))} :
              \E ends \in {k.pc = Len(Program(k.op))} :
                 bus' = [bus EXCEPT
                           !.pointer = (bus.pointer + st.n) % 256,
                           !.owner = IF ends THEN 0 ELSE @,
                           !.callers[c] =
                               [k1 EXCEPT !.asked = k.reg,
                                          !.from = bus.pointer,
                                          !.pc = IF ends THEN 0 ELSE k.pc + 1,
                                          !.op = IF ends THEN "idle" ELSE k.op,
                                          !.last = IF ends THEN k.op ELSE k.last]]
    /\ UNCHANGED <<ctx, data, openFds, image, lastCall, trace, phase, lastString>>

NextBus ==
    \/ \E c \in Callers : BusEnter(c)
    \/ \E c \in Callers : BusWrite(c)
    \/ \E c \in Callers : BusRead(c)

SpecBus == InitBus /\ [][NextBus]_vars

(***************************************************************************)
(* The session contract (Spec).  lastCall is the API call that led to the  *)
(* state and trace the transport calls it made.                            *)
(***************************************************************************)
SessionOps == {"read_calibration", "configure", "read_data"}

NonNullCall == ~lastCall.ctxNull /\ ~lastCall.argNull

\* C1: read_calibration, configure and read_data called with non-NULL
\* arguments on a context whose fd is negative (preset to -1, left by a failed
\* init, or left by close) return BME280_ERR_NOT_INIT and make no transport
\* call.
C1_NotInitialized ==
    (lastCall.op \in SessionOps /\ NonNullCall /\ lastCall.fd0 < 0)
        => (lastCall.ret = BME280_ERR_NOT_INIT /\ trace = <<>>)

\* read_data after close, refused without a transport call.
C1_Witness ==
    /\ lastCall.op = "read_data"
    /\ NonNullCall
    /\ lastCall.phase0 = "closed"
    /\ lastCall.fd0 < 0
    /\ lastCall.ret = BME280_ERR_NOT_INIT
    /\ trace = <<>>

\* C2: every step that is a call of bme280_close on an open session makes
\* exactly one transport call, the close of the descriptor held, and sets
\* ctx->fd to -1; on a context whose fd is already negative (closed before or
\* never opened), or on a NULL context, it makes no transport call and changes
\* neither the context, the output structure nor the open descriptors.
C2_CloseIdempotent ==
    [][ lastCall'.op = "close" =>
            IF ~lastCall'.ctxNull /\ ctx.fd >= 0
            THEN /\ trace' = <<TClose(ctx.fd)>>
                 /\ ctx'.fd = -1
                 /\ ctx.fd \notin openFds'
            ELSE /\ trace' = <<>>
                 /\ UNCHANGED <<ctx, data, openFds>> ]_vars

\* A second close: close called on a context that close has already closed.
C2_Witness ==
    /\ lastCall.op = "close"
    /\ ~lastCall.ctxNull
    /\ lastCall.phase0 = "closed"
    /\ lastCall.fd0 < 0
    /\ trace = <<>>
    /\ ctx.fd = -1

\* The call was an init that opened the bus and then failed to bind the address.
BindFailed ==
    /\ lastCall.op = "init"
    /\ NonNullCall
    /\ Len(trace) >= 2
    /\ trace[1].call = "open" /\ trace[1].ret >= 0
    /\ trace[2].call = "ioctl" /\ trace[2].ret < 0

\* C3: when init has opened the bus and the bind has failed, init has closed
\* the descriptor it opened as its last transport call, returns
\* BME280_ERR_ADDR_SET, leaves ctx->fd = -1, and the descriptor is not open.
C3_BindFailureReleases ==
    BindFailed =>
        /\ Len(trace) = 3
        /\ trace[3] = TClose(trace[1].ret)
        /\ lastCall.ret = BME280_ERR_ADDR_SET
        /\ ctx.fd = -1
        /\ trace[1].ret \notin openFds

\* A failed bind after which no descriptor at all is open.
C3_Witness ==
    /\ BindFailed
    /\ lastCall.ret = BME280_ERR_ADDR_SET
    /\ trace[3].call = "close"
    /\ ctx.fd = -1
    /\ openFds = {}

\* C4: init with non-NULL ctx and bus_path first opens the bus; it returns
\* BME280_ERR_BUS_OPEN when the open fails, and then makes no further
\* transport call, BME280_ERR_ADDR_SET when the open succeeds and the bind
\* fails, BME280_OK when both succeed; ctx->fd >= 0 on return exactly when it
\* returns BME280_OK.
C4_InitResult ==
    (lastCall.op = "init" /\ NonNullCall) =>
        /\ Len(trace) >= 1 /\ trace[1].call = "open"
        /\ (trace[1].ret < 0 =>
                lastCall.ret = BME280_ERR_BUS_OPEN /\ Len(trace) = 1)
        /\ (trace[1].ret >= 0 =>
                /\ Len(trace) >= 2 /\ trace[2].call = "ioctl"
                /\ (trace[2].ret < 0 => lastCall.ret = BME280_ERR_ADDR_SET)
                /\ (trace[2].ret >= 0 => lastCall.ret = BME280_OK))
        /\ (ctx.fd >= 0 <=> lastCall.ret = BME280_OK)

\* An init whose open failed: one transport call, no bind, fd negative.
C4_Witness ==
    /\ lastCall.op = "init"
    /\ NonNullCall
    /\ trace = <<TOpen(-1)>>
    /\ lastCall.ret = BME280_ERR_BUS_OPEN
    /\ ctx.fd < 0

\* C5: every step that is a call of init, read_calibration, configure or
\* read_data with a NULL required pointer (the context; the bus path of init;
\* the output structure of read_data) returns BME280_ERR_NULL_PTR, makes no
\* transport call and changes neither the context, the output structure nor
\* the open descriptors.  This holds of read_data with a NULL output structure
\* on a context that is not open as well: NULL_PTR, not NOT_INIT.
C5_NullPointer ==
    [][ (lastCall'.op \in SessionOps \cup {"init"}
            /\ (lastCall'.ctxNull \/ lastCall'.argNull)) =>
            /\ lastCall'.ret = BME280_ERR_NULL_PTR
            /\ trace' = <<>>
            /\ UNCHANGED <<ctx, data, openFds>> ]_vars

\* read_data with a context that is not open and a NULL output structure.
C5_Witness ==
    /\ lastCall.op = "read_data"
    /\ ~lastCall.ctxNull
    /\ lastCall.argNull
    /\ lastCall.fd0 < 0
    /\ lastCall.ret = BME280_ERR_NULL_PTR
    /\ trace = <<>>

\* The call was read_calibration, configure or read_data on an open session.
OpenSessionCall == lastCall.op \in SessionOps /\ NonNullCall /\ lastCall.fd0 >= 0

\* The transport call e transferred less than it was asked to, or failed.
Incomplete(e) == e.call \in {"write", "read"} /\ e.ret # e.n

\* C6: in a call of read_calibration, configure or read_data on an open
\* session, a write that fails or transfers fewer bytes than requested makes
\* the call return BME280_ERR_WRITE, a read that fails or returns fewer bytes
\* than the 24, 1, 7 or 8 requested makes it return BME280_ERR_READ, and the
\* call returns BME280_OK only if every write and read transferred its full
\* count.
C6_TransferErrors ==
    OpenSessionCall =>
        /\ \A i \in 1 .. Len(trace) :
              /\ trace[i].call \in {"write", "read"}
              /\ trace[i].call = "read" => trace[i].n \in {24, 1, 7, 8}
              /\ (trace[i].call = "write" /\ Incomplete(trace[i]))
                    => lastCall.ret = BME280_ERR_WRITE
              /\ (trace[i].call = "read" /\ Incomplete(trace[i]))
                    => lastCall.ret = BME280_ERR_READ
        /\ lastCall.ret = BME280_OK =>
              (trace # <<>> /\ \A i \in 1 .. Len(trace) : ~Incomplete(trace[i]))

\* read_data whose read of the eight data registers came one byte short.
C6_Witness ==
    /\ OpenSessionCall
    /\ lastCall.op = "read_data"
    /\ Len(trace) = 2
    /\ trace[2].call = "read" /\ trace[2].n = 8 /\ trace[2].ret = 7
    /\ lastCall.ret = BME280_ERR_READ

\* The transport call e failed: open or ioctl returned a negative value, or a
\* write or read did not transfer all it was asked to.
FailedTransport(e) ==
    \/ e.call \in {"open", "ioctl"} /\ e.ret < 0
    \/ Incomplete(e)

\* What a transport call was asked to do, whatever came of it.
Request(e) == [call |-> e.call, fd |-> e.fd, bytes |-> e.bytes, n |-> e.n]

\* C17: within one API call no transport call is made twice, and no write,
\* read, open or ioctl follows a transport call that failed or was short: a
\* failed write or read is the last transport call of its API call, and the
\* failed bind of init is followed by the close of the descriptor alone.
C17_NoRetry ==
    \A i \in 1 .. Len(trace) :
        /\ \A j \in (i + 1) .. Len(trace) :
              /\ Request(trace[j]) # Request(trace[i])
              /\ FailedTransport(trace[i]) => trace[j].call = "close"
        /\ (FailedTransport(trace[i]) /\ trace[i].call \in {"write", "read"})
              => i = Len(trace)

\* A read_calibration whose fourth transport call, the read of H1, failed, and
\* which made no fifth.
C17_Witness ==
    /\ lastCall.op = "read_calibration"
    /\ Len(trace) = 4
    /\ trace[4].call = "read" /\ trace[4].n = 1 /\ trace[4].ret = -1
    /\ lastCall.ret = BME280_ERR_READ

(***************************************************************************)
(* The sensor contract (SpecSensor).                                       *)
(***************************************************************************)
\* The coefficients k lie in the ranges of their fields: T1 and P1 unsigned 16
\* bit, H1 and H3 unsigned 8 bit, H4 and H5 signed 12 bit, H6 signed 8 bit,
\* the others signed 16 bit.
CalibInRange(k) ==
    /\ k.dig_T1 \in 0 .. 65535 /\ k.dig_P1 \in 0 .. 65535
    /\ \A v \in {k.dig_T2, k.dig_T3, k.dig_P2, k.dig_P3, k.dig_P4, k.dig_P5, k.dig_P6,
                 k.dig_P7, k.dig_P8, k.dig_P9, k.dig_H2} : v \in -32768 .. 32767
    /\ k.dig_H1 \in 0 .. 255 /\ k.dig_H3 \in 0 .. 255
    /\ k.dig_H4 \in -2048 .. 2047 /\ k.dig_H5 \in -2048 .. 2047
    /\ k.dig_H6 \in -128 .. 127

\* C7: after a successful read_calibration from a sensor whose registers
\* encode the coefficients image, each in the range of its field, ctx->calib
\* is image, field for field.
C7_RoundTrip ==
    (lastCall.op = "read_calibration" /\ lastCall.ret = BME280_OK /\ CalibInRange(image))
        => ctx.calib = image

\* The call was a read_data that succeeded.
DataRead == lastCall.op = "read_data" /\ lastCall.ret = BME280_OK

\* C8: after a successful read_data, humidity_rh is a number in [0, 100]: it
\* is exactly 100 when the value of the humidity formula is above 100, exactly
\* 0 when it is below 0, and the value of the formula itself otherwise.
C8_HumidityClamped ==
    DataRead =>
        Let2(HumidityRaw(ctx.calib, lastCall.sample.adc_h, ctx.t_fine), data.humidity_rh,
             LAMBDA raw, h :
                 /\ h.k = "fin" /\ ~F32Lt(h, F(0)) /\ ~F32Gt(h, F(100))
                 /\ F32Gt(raw, F(100)) => h = F(100)
                 /\ F32Lt(raw, F(0)) => h = F(0)
                 /\ (~F32Gt(raw, F(100)) /\ ~F32Lt(raw, F(0))) => h = raw)

\* A read whose humidity formula gave more than 100 and reported 100.
C8_Witness ==
    /\ DataRead
    /\ F32Gt(HumidityRaw(ctx.calib, lastCall.sample.adc_h, ctx.t_fine), F(100))
    /\ data.humidity_rh = F(100)

\* A read whose humidity formula gave less than 0 and reported 0.
C8_WitnessBelow ==
    /\ DataRead
    /\ F32Lt(HumidityRaw(ctx.calib, lastCall.sample.adc_h, ctx.t_fine), F(0))
    /\ data.humidity_rh = F(0)

\* A read whose humidity formula gave a value strictly inside the range.
C8_WitnessInside ==
    /\ DataRead
    /\ F32Gt(data.humidity_rh, F(0))
    /\ F32Lt(data.humidity_rh, F(100))

\* a and b are numbers and differ by no more than tol.
Within(a, b, tol) ==
    /\ a.k = "fin"
    /\ b.k = "fin"
    /\ ~F32Gt(F32Abs(F32Sub(a, b)), tol)

\* C9: after a successful read_data with coefficients in the realistic ranges
\* and raw values within their bit widths, temperature_c, pressure_hpa and
\* humidity_rh are within 0.01, 0.1 and 0.1 of what the reference
\* implementation computes from the same coefficients and raw values.
C9_MatchesReference ==
    (DataRead /\ RealisticCalib(ctx.calib)) =>
        Let(reference_compensate(ctx.calib, lastCall.sample.adc_t, lastCall.sample.adc_p,
                                 lastCall.sample.adc_h),
            LAMBDA ref :
                /\ lastCall.sample.adc_t \in 0 .. 1048575
                /\ lastCall.sample.adc_p \in 0 .. 1048575
                /\ lastCall.sample.adc_h \in 0 .. 65535
                /\ Within(data.temperature_c, ref.temperature_c, TEMP_TOLERANCE)
                /\ Within(data.pressure_hpa, ref.pressure_hpa, PRESS_TOLERANCE)
                /\ Within(data.humidity_rh, ref.humidity_rh, HUM_TOLERANCE))

\* A read with realistic coefficients loaded from the sensor that reports a
\* pressure between 300 and 1100 hPa.
C9_Witness ==
    /\ DataRead
    /\ RealisticCalib(ctx.calib)
    /\ ctx.calib = image
    /\ F32Gt(data.pressure_hpa, F(300))
    /\ F32Lt(data.pressure_hpa, F(1100))

\* The call was a successful read_data of the raw temperature 519888 with the
\* coefficients T1 = 27504, T2 = 26435, T3 = -1000.
ScenarioRead ==
    /\ DataRead
    /\ ctx.calib.dig_T1 = 27504
    /\ ctx.calib.dig_T2 = 26435
    /\ ctx.calib.dig_T3 = -1000
    /\ lastCall.sample.adc_t = 519888

\* C10: with T1 = 27504, T2 = 26435, T3 = -1000 and the raw temperature
\* 519888, read_data stores t_fine = 128422 and reports a temperature_c t with
\* 25.07 <= t <= 25.09.  (t = m * 2^-19 for a float of this size, and the
\* bounds are compared after multiplying by 100 * 2^19.)
C10_Scenario ==
    ScenarioRead =>
        /\ ctx.t_fine = 128422
        /\ data.temperature_c.k = "fin"
        /\ data.temperature_c.s = 0
        /\ data.temperature_c.e = -19
        /\ 2507 * 524288 <= 100 * data.temperature_c.m
        /\ 100 * data.temperature_c.m <= 2509 * 524288

\* The scenario read from data registers whose unused low nibbles are set.
C10_Witness ==
    /\ ScenarioRead
    /\ lastCall.sample.nib # 0
    /\ ctx.t_fine = 128422

\* C11: after a successful read_data, temperature_f is the float product of
\* the temperature_c of the same call and 1.8f, plus 32.
C11_FahrenheitFromCelsius ==
    DataRead =>
        data.temperature_f = F32Add(F32Mul(data.temperature_c, F1p8), F(32))

\* A read at about 25 C: temperature_f between 77 and 78, and not what the
\* conversion makes of t_fine / 5120.
C11_Witness ==
    /\ DataRead
    /\ F32Gt(data.temperature_f, F(77))
    /\ F32Lt(data.temperature_f, F(78))
    /\ data.temperature_f # F32Add(F32Mul(F32Div(F(ctx.t_fine), F(5120)), F1p8), F(32))

\* C12: a read_data whose pressure divisor var1 is zero does not return
\* BME280_OK with an infinite or NaN pressure_hpa, the result of a float
\* division by zero: it fails, or reports a number it has chosen.
C12_DivisionGuarded ==
    (lastCall.op = "read_data" /\ NonNullCall /\ lastCall.fd0 >= 0
        /\ lastCall.ret = BME280_OK /\ IsZero(PressureDivisor(ctx.calib, ctx.t_fine)))
        => data.pressure_hpa.k = "fin"

\* C13: a configure that returns BME280_OK has made exactly three transport
\* calls, each a complete write of two bytes on the descriptor of the context:
\* (0xF2, 0x01), then (0xF4, 0x27), then (0xF5, 0xA0).  It has made no read,
\* and the write to 0xF2 precedes the write to 0xF4.
C13_ConfigureWrites ==
    (lastCall.op = "configure" /\ lastCall.ret = BME280_OK) =>
        /\ Len(trace) = 3
        /\ \A i \in 1 .. 3 :
              /\ trace[i].call = "write"
              /\ trace[i].fd = lastCall.fd0
              /\ trace[i].n = 2
              /\ trace[i].ret = 2
        /\ trace[1].bytes = <<242, 1>>
        /\ trace[2].bytes = <<244, 39>>
        /\ trace[3].bytes = <<245, 160>>

\* A successful configure of an open session.
C13_Witness ==
    /\ lastCall.op = "configure"
    /\ lastCall.ret = BME280_OK
    /\ lastCall.fd0 >= 0
    /\ Len(trace) = 3
    /\ trace[1].bytes[1] = BME280_REG_CTRL_HUM

\* C14: every step that is not a call of read_calibration (init, configure,
\* read_data, close, whatever they return) leaves ctx->calib, all 18
\* coefficients, as it was.
C14_CalibFrame ==
    [][ lastCall'.op # "read_calibration" => ctx'.calib = ctx.calib ]_vars

\* An init on a context that holds the coefficients read from the sensor, which
\* fails to open the bus and leaves the coefficients.
C14_Witness ==
    /\ lastCall.op = "init"
    /\ NonNullCall
    /\ lastCall.ret = BME280_ERR_BUS_OPEN
    /\ ctx.calib = image
    /\ ctx.calib # ZeroCalib

(***************************************************************************)
(* The usage sequence (SpecMain).                                          *)
(***************************************************************************)
\* The transport call e succeeded, with its full byte count if it transfers.
Succeeded(e) ==
    /\ e.call \in {"open", "ioctl"} => e.ret >= 0
    /\ e.call \in {"write", "read"} => e.ret = e.n

\* C15: in the sequence init, read_calibration, configure, read_data, close,
\* each of the first four calls returns BME280_OK when every transport call it
\* makes succeeds with its full byte count (the calls before it having
\* returned BME280_OK), and when the close after a successful read_data has
\* returned, no descriptor is open and ctx->fd is -1.
C15_UsageSequence ==
    /\ (lastCall.op \in SessionOps \cup {"init"}
            /\ \A i \in 1 .. Len(trace) : Succeeded(trace[i]))
        => (lastCall.ret = BME280_OK /\ trace # <<>>)
    /\ lastCall.op = "close" => (openFds = {} /\ ctx.fd = -1)

\* The end of a run in which all four calls succeeded: the close of the open
\* session, with the reading of about 25 C still in the output structure.
C15_Witness ==
    /\ lastCall.op = "close"
    /\ lastCall.phase0 = "open"
    /\ trace = <<TClose(lastCall.fd0)>>
    /\ ctx.calib = image
    /\ F32Gt(data.temperature_c, F(25))
    /\ openFds = {}
    /\ ctx.fd = -1

(***************************************************************************)
(* The error strings (SpecStrings).                                        *)
(***************************************************************************)
ErrorCodes == {BME280_OK, BME280_ERR_BUS_OPEN, BME280_ERR_ADDR_SET, BME280_ERR_WRITE,
               BME280_ERR_READ, BME280_ERR_NULL_PTR, BME280_ERR_NOT_INIT}

\* C16: what bme280_error_string returns is never NULL and never the empty
\* string, for the seven codes and for every other value, and for every value
\* that is not one of the seven codes it is "Unknown error".
C16_ErrorStrings ==
    lastString.called =>
        /\ ~lastString.str.null
        /\ lastString.str.text # ""
        /\ lastString.error \notin ErrorCodes => lastString.str.text = "Unknown error"

\* The string of the value 999, which is no code.
C16_Witness ==
    /\ lastString.called
    /\ lastString.error = UNKNOWN_CODE
    /\ lastString.str = StringLiteral("Unknown error")

\* The string of the last of the seven codes.
C16_WitnessCode ==
    /\ lastString.called
    /\ lastString.error = BME280_ERR_NOT_INIT
    /\ lastString.str = StringLiteral("Device not initialized")

\* Values of ctx->t_fine a context may hold before a read.
PriorTFines == {-721299, 960257}

\* C18: every step that is a successful read_data stores the t_fine and the
\* four outputs that read_data gives for the same data registers and
\* coefficients whatever t_fine the context holds before, and its pressure and
\* humidity are those of the formulas applied to the t_fine it stores.
C18_FineTemperatureFresh ==
    [][ (lastCall'.op = "read_data" /\ lastCall'.ret = BME280_OK) =>
            /\ \A t \in PriorTFines :
                  \E r \in { bme280_read_data(FALSE, FALSE, [ctx EXCEPT !.t_fine = t], data,
                                              <<1, 8>>, image, Burst(lastCall'.sample),
                                              openFds) } :
                      /\ r.ret = BME280_OK
                      /\ r.data = data'
                      /\ r.ctx.t_fine = ctx'.t_fine
            /\ data'.pressure_hpa =
                  PressureHpa(ctx.calib, lastCall'.sample.adc_p, ctx'.t_fine)
            /\ data'.humidity_rh =
                  ClampHumidity(HumidityRaw(ctx.calib, lastCall'.sample.adc_h, ctx'.t_fine))
      ]_vars

\* A read that replaced the t_fine of an earlier, colder sample by 128422.
C18_Witness ==
    /\ DataRead
    /\ lastCall.t_fine0 < 0
    /\ ctx.t_fine = 128422
    /\ ctx.calib = image

\* The call was a read_calibration that succeeded.
CalibRead == lastCall.op = "read_calibration" /\ lastCall.ret = BME280_OK

\* The fields of the 24-byte block in the order of its words.
TempPressFields == << "dig_T1", "dig_T2", "dig_T3", "dig_P1", "dig_P2", "dig_P3",
                      "dig_P4", "dig_P5", "dig_P6", "dig_P7", "dig_P8", "dig_P9" >>

\* Word k (from 0) of the bytes b: byte[2k] + 256 * byte[2k+1].
WordAt(b, k) == b[2 * k + 1] + 256 * b[2 * k + 2]

\* The 16-bit word w read as two's complement.
SignedWord(w) == IF w >= 32768 THEN w - 65536 ELSE w

\* C19: after a successful read_calibration, the twelve coefficients T1, T2,
\* T3, P1..P9 are the twelve little-endian words of the 24 bytes the sensor
\* delivered, in this order: T1 and P1 the words themselves, in 0..65535, the
\* other ten the words read as two's complement, in -32768..32767.
C19_TempPressWords ==
    CalibRead =>
        \E b \in { DeviceRead(image, <<>>, BME280_REG_CALIB_TEMP_PRESS, 24) } :
            \A k \in 0 .. 11 :
                IF TempPressFields[k + 1] \in {"dig_T1", "dig_P1"}
                THEN /\ ctx.calib[TempPressFields[k + 1]] = WordAt(b, k)
                     /\ ctx.calib[TempPressFields[k + 1]] \in 0 .. 65535
                ELSE /\ ctx.calib[TempPressFields[k + 1]] = SignedWord(WordAt(b, k))
                     /\ ctx.calib[TempPressFields[k + 1]] \in -32768 .. 32767

\* Coefficients read from words whose bytes differ, one with the sign bit set
\* in an unsigned field's neighbour: T1 = 27504 (0x6B70), P2 = -10685 (0xD643).
C19_Witness ==
    /\ CalibRead
    /\ DeviceRead(image, <<>>, BME280_REG_CALIB_TEMP_PRESS, 24)[1] = 112
    /\ DeviceRead(image, <<>>, BME280_REG_CALIB_TEMP_PRESS, 24)[2] = 107
    /\ ctx.calib.dig_T1 = 27504
    /\ ctx.calib.dig_P2 = -10685

\* The 12-bit value v read as two's complement: bit 11 is the sign.
SignedTwelve(v) == IF v >= 2048 THEN v - 4096 ELSE v

\* C20: after a successful read_calibration, with b the seven bytes of the
\* second humidity block, H4 is (b[3] << 4) | (b[4] & 0x0F) and H5 is
\* (b[4] >> 4) | (b[5] << 4), each read as a signed 12-bit value, so that both
\* lie in -2048..2047.
C20_SignedTwelveBit ==
    CalibRead =>
        \E b \in { DeviceRead(image, <<>>, BME280_REG_CALIB_HUM2, 7) } :
            /\ ctx.calib.dig_H4 = SignedTwelve(16 * b[4] + (b[5] % 16))
            /\ ctx.calib.dig_H5 = SignedTwelve((b[5] \div 16) + 16 * b[6])
            /\ ctx.calib.dig_H4 \in -2048 .. 2047
            /\ ctx.calib.dig_H5 \in -2048 .. 2047

\* C21: bme280_read_calibration on an open session returns BME280_OK whenever
\* every one of its writes and reads transferred its full count, whatever the
\* bytes the sensor delivered; when it returns an error, the last transport
\* call it made failed or was short.
C21_NoValidation ==
    (lastCall.op = "read_calibration" /\ NonNullCall /\ lastCall.fd0 >= 0) =>
        /\ trace # <<>>
        /\ (\A i \in 1 .. Len(trace) : ~Incomplete(trace[i])) => lastCall.ret = BME280_OK
        /\ lastCall.ret # BME280_OK => Incomplete(trace[Len(trace)])

\* Coefficients no sensor would hold (T1 = P1 = 0, every signed field at its
\* minimum) read with all six transfers complete, and accepted.
C21_Witness ==
    /\ lastCall.op = "read_calibration"
    /\ lastCall.ret = BME280_OK
    /\ Len(trace) = 6
    /\ image = ImageMin
    /\ ctx.calib.dig_T1 = 0 /\ ctx.calib.dig_P1 = 0 /\ ctx.calib.dig_T2 = -32768

\* The raw values of the eight data registers b (b[1] is byte 0), by
\* arithmetic.
RawP(b) == b[1] * 4096 + b[2] * 16 + (b[3] \div 16)
RawT(b) == b[4] * 4096 + b[5] * 16 + (b[6] \div 16)
RawH(b) == b[7] * 256 + b[8]

\* The data registers b with the low nibbles of bytes 2 and 5 set to nib.
WithNibbles(b, nib) ==
    [b EXCEPT ![3] = 16 * (b[3] \div 16) + nib, ![6] = 16 * (b[6] \div 16) + nib]

\* C22: after a successful read_data of the data registers b0..b7, the raw
\* values rawP = b0*4096 + b1*16 + (b2 >> 4), rawT = b3*4096 + b4*16 + (b5 >> 4)
\* and rawH = b6*256 + b7 lie in 0..1048575, 0..1048575 and 0..65535, the
\* stored t_fine and outputs are the compensation formulas applied to these
\* three values, and they are the same whatever the low nibbles of b2 and b5.
C22_RawExtraction ==
    DataRead =>
        \E b \in { Burst(lastCall.sample) } :
            /\ \A i \in 1 .. 8 : b[i] \in 0 .. 255
            /\ RawP(b) \in 0 .. 1048575
            /\ RawT(b) \in 0 .. 1048575
            /\ RawH(b) \in 0 .. 65535
            /\ ctx.t_fine = TFine(ctx.calib, RawT(b))
            /\ data.temperature_c = TemperatureC(ctx.calib, RawT(b))
            /\ data.pressure_hpa = PressureHpa(ctx.calib, RawP(b), ctx.t_fine)
            /\ data.humidity_rh = ClampHumidity(HumidityRaw(ctx.calib, RawH(b), ctx.t_fine))
            /\ \A nib \in {0, 15} :
                  Compensate(ctx.calib, WithNibbles(b, nib))
                      = [t_fine |-> ctx.t_fine, data |-> data]

\* A read of data registers whose two low nibbles are all ones while the low
\* four bits of the raw pressure are zero: b2 = 0x0F.
C22_Witness ==
    /\ DataRead
    /\ lastCall.sample.nib = 15
    /\ Burst(lastCall.sample)[3] = 15
    /\ RawP(Burst(lastCall.sample)) = 500000
    /\ ctx.calib = ImageTypical

\* The finite float a has a fraction: it is not an integer.
HasFraction(a) ==
    a.k = "fin" /\ a.e < 0 /\ (IF a.e <= -24 THEN a.m # 0 ELSE a.m % 2^(-a.e) # 0)

\* The greatest integer that is not above the finite float a, |a| < 2^31.
FloorOf(a) ==
    IF a.e >= 0 THEN (IF a.s = 1 THEN -(a.m * 2^a.e) ELSE a.m * 2^a.e)
    ELSE LET q == IF a.e <= -24 THEN 0 ELSE a.m \div 2^(-a.e)
         IN  IF a.s = 0 THEN q
             ELSE IF HasFraction(a) THEN -q - 1
             ELSE -q

\* C23 as stated: after a successful read_data the stored t_fine is
\* floor(var1 + var2), also when var1 + var2 is negative and not an integer.
C23_FloorFineTemperature ==
    DataRead => ctx.t_fine = FloorOf(TempSum(ctx.calib, lastCall.sample.adc_t))

\* C23, amended: after a successful read_data the stored t_fine is var1 + var2
\* with its fraction discarded, the integer next to it toward zero: var1 + var2
\* is finite, t_fine <= var1 + var2 < t_fine + 1 when it is not negative and
\* t_fine - 1 < var1 + var2 <= t_fine when it is; so t_fine is floor(var1 +
\* var2) but for a negative var1 + var2 that is not an integer, where it is
\* floor(var1 + var2) + 1.
C23_TruncatedFineTemperature ==
    DataRead =>
        \E x \in { TempSum(ctx.calib, lastCall.sample.adc_t) } :
            /\ x.k = "fin"
            /\ IF x.s = 0 \/ IsZero(x)
               THEN ~F32Lt(x, F(ctx.t_fine)) /\ F32Lt(x, F(ctx.t_fine + 1))
               ELSE F32Lt(F(ctx.t_fine - 1), x) /\ ~F32Lt(F(ctx.t_fine), x)
            /\ ctx.t_fine = IF x.s = 1 /\ HasFraction(x) THEN FloorOf(x) + 1 ELSE FloorOf(x)

\* A read whose var1 + var2 is negative and not an integer: t_fine is one
\* above its floor.
C23_Witness ==
    /\ DataRead
    /\ TempSum(ctx.calib, lastCall.sample.adc_t).s = 1
    /\ HasFraction(TempSum(ctx.calib, lastCall.sample.adc_t))
    /\ ctx.t_fine < 0
    /\ ctx.t_fine = FloorOf(TempSum(ctx.calib, lastCall.sample.adc_t)) + 1

\* The register address a read of n calibration bytes belongs to: 24 bytes
\* from 0x88, 1 from 0xA1, 7 from 0xE1.
CalibRegisterOf(n) == IF n = 24 THEN 136 ELSE IF n = 1 THEN 161 ELSE 225

\* C24: a read_calibration that returns BME280_OK has made exactly the six
\* transport calls write 0x88, read 24, write 0xA1, read 1, write 0xE1, read 7
\* on the descriptor of the session, each transferring its full count; and in
\* every read_calibration, successful or not, each read comes right after the
\* complete one-byte write of its own register address.
C24_CalibrationSequence ==
    (lastCall.op = "read_calibration" /\ NonNullCall) =>
        /\ lastCall.ret = BME280_OK =>
              trace = << TWrite(lastCall.fd0, <<136>>, 1), TRead(lastCall.fd0, 24, 24),
                         TWrite(lastCall.fd0, <<161>>, 1), TRead(lastCall.fd0, 1, 1),
                         TWrite(lastCall.fd0, <<225>>, 1), TRead(lastCall.fd0, 7, 7) >>
        /\ \A i \in 1 .. Len(trace) :
              trace[i].call = "read" =>
                  /\ i > 1
                  /\ trace[i - 1] = TWrite(lastCall.fd0, <<CalibRegisterOf(trace[i].n)>>, 1)

\* A successful read_calibration: six transport calls, the third the write of
\* 0xA1 and the last the complete read of seven bytes.
C24_Witness ==
    /\ lastCall.op = "read_calibration"
    /\ lastCall.ret = BME280_OK
    /\ Len(trace) = 6
    /\ trace[3].call = "write" /\ trace[3].bytes = <<161>>
    /\ trace[6].call = "read" /\ trace[6].ret = 7
    /\ ctx.calib = image

\* The descriptors that the first i - 1 transport calls of the log opened.
OpenedBefore(log, i) ==
    { log[j].ret : j \in { j \in 1 .. (i - 1) : log[j].call = "open" /\ log[j].ret >= 0 } }

\* C26: in every state ctx->fd is -1 or a descriptor that is open; and every
\* ioctl, write, read and close of every API call is made on a descriptor that
\* was open before the call or that the call itself opened, and that the call
\* has not closed before.
C26_HandleValid ==
    /\ [](ctx.fd = -1 \/ ctx.fd \in openFds)
    /\ [][ \A i \in 1 .. Len(trace') :
              trace'[i].call \in {"ioctl", "write", "read", "close"} =>
                  /\ trace'[i].fd \in openFds \cup OpenedBefore(trace', i)
                  /\ \A j \in 1 .. (i - 1) :
                        ~(trace'[j].call = "close" /\ trace'[j].fd = trace'[i].fd) ]_vars

\* init on a context that close has closed: the session is open again, on the
\* descriptor number that was closed before, and this is the only one open.
C26_Witness ==
    /\ lastCall.op = "init"
    /\ lastCall.phase0 = "closed"
    /\ lastCall.ret = BME280_OK
    /\ ctx.fd = 0
    /\ openFds = {0}

\* C27: every step that is a read_calibration returning an error leaves
\* ctx->calib as it was before the call.
C27_CalibUnchangedOnError ==
    [][ (lastCall'.op = "read_calibration" /\ lastCall'.ret # BME280_OK)
            => ctx'.calib = ctx.calib ]_vars

\* C28: every step that is a read_data not returning BME280_OK (a NULL
\* argument, a context that is not open, a failed or short write or read)
\* leaves the four fields of the output structure and ctx->t_fine as they were.
C28_FailedReadFrame ==
    [][ (lastCall'.op = "read_data" /\ lastCall'.ret # BME280_OK)
            => (data' = data /\ ctx'.t_fine = ctx.t_fine) ]_vars

\* A read_data whose read came short on a session that holds the reading and
\* the t_fine of an earlier successful read_data.
C28_Witness ==
    /\ lastCall.op = "read_data"
    /\ lastCall.ret = BME280_ERR_READ
    /\ Len(trace) = 2 /\ trace[2].ret = 7
    /\ ctx.t_fine # 0
    /\ ~IsZero(data.temperature_c)
    /\ ~IsZero(data.humidity_rh)

\* The coefficients a complete calibration read stores for the sensor image k.
FullyRead(k) ==
    ParseHum2(ParseHum1(ParseTempPress(ZeroCalib,
                  DeviceRead(k, <<>>, BME280_REG_CALIB_TEMP_PRESS, 24)),
                  DeviceRead(k, <<>>, BME280_REG_CALIB_HUM1, 1)),
              DeviceRead(k, <<>>, BME280_REG_CALIB_HUM2, 7))

\* C29: read_data returns BME280_OK only on a context whose coefficients a
\* read_calibration that returned BME280_OK has read from the sensor, all
\* eighteen of them.  (The context starts with all coefficients zero, which is
\* no sensor's image here, and only read_calibration stores coefficients, the
\* humidity group H2..H6 only when it returns BME280_OK.)
C29_CalibratedBeforeRead ==
    DataRead => ctx.calib = FullyRead(image)

\* C30: in every state the descriptors that the driver has opened and not
\* closed are at most the one held in ctx->fd; so init on an open session
\* leaves no earlier descriptor open.
C30_NoLeakedHandle ==
    /\ openFds \subseteq {ctx.fd}
    /\ Cardinality(openFds) <= 1

\* The reading a caller's session k holds is the compensation of the raw
\* sample in the sensor's data registers with the session's coefficients.
ReadingOfSample(k) ==
    [t_fine |-> k.t_fine, data |-> k.data] = Compensate(k.calib, Burst(SampleTypical))

\* C25: of two callers on one sensor, a caller's read delivers the bytes of a
\* register other than the one it addressed only when the callers do not
\* serialise their API calls.  When they do, every read delivers the bytes of
\* the register the reading caller addressed, a completed read_calibration
\* leaves the coefficients of the sensor, and a completed read_data the
\* reading of the sensor's sample.
C25_SerialisedReads ==
    \A c \in Callers : \E k \in {bus.callers[c]} :
        /\ (k.from # -1 /\ k.from # k.asked) => ~bus.locking
        /\ bus.locking =>
              /\ k.from # -1 => k.from = k.asked
              /\ (k.op = "idle" /\ k.last = "read_calibration") => k.calib = FullyRead(image)
              /\ (k.op = "idle" /\ k.last = "read_data") => ReadingOfSample(k)

\* Without serialisation: caller 1, in read_calibration, had addressed 0xA1
\* and its read of one byte delivered register 0xF7, which caller 2 had
\* addressed for its read_data in between; caller 1 has stored the first
\* pressure byte, 101, as H1, which is 75 on the sensor.
C25_Witness ==
    /\ ~bus.locking
    /\ bus.callers[1].op = "read_calibration"
    /\ bus.callers[1].asked = 161
    /\ bus.callers[1].from = 247
    /\ bus.callers[2].reg = 247
    /\ bus.callers[1].calib.dig_H1 = 101
    /\ FullyRead(image).dig_H1 = 75

\* Without serialisation: a completed read_calibration that has left
\* coefficients that are not the sensor's.
C25_WitnessCalibration ==
    /\ ~bus.locking
    /\ \E c \in Callers :
           /\ bus.callers[c].op = "idle" /\ bus.callers[c].last = "read_calibration"
           /\ bus.callers[c].calib # FullyRead(image)

\* With serialisation: caller 1 has completed a read_calibration and caller
\* 2 a read_data, the last reads of the two from different registers, each
\* the one addressed.
C25_WitnessSerialised ==
    /\ bus.locking
    /\ \A c \in Callers : bus.callers[c].op = "idle" /\ bus.callers[c].from = bus.callers[c].asked
    /\ bus.callers[1].last = "read_calibration" /\ bus.callers[1].from = 225
    /\ bus.callers[2].last = "read_data" /\ bus.callers[2].from = 247
    /\ bus.callers[1].calib = FullyRead(image)

=============================================================================
